---------------------------- MODULE MCCheckFiles ----------------------------
(* Small instances of CheckFiles for TLC. *)
EXTENDS CheckFiles

CONSTANTS g1, g2, https, https_exported, inverted, inverted_exported, tcp, tls, tls_exported

-----------------------------------------------------------------------------
(* Addresses, connections and what answers.                                *)

Public == [range |-> "public", form |-> "plain"]
Metadata == [range |-> "link_local", form |-> "mapped"]
Reserved == [range |-> "reserved", form |-> "mapped"]
ZonedLinkLocal == [range |-> "link_local", form |-> "zoned"]
ZonedUnspecified == [range |-> "unspecified", form |-> "zoned"]

Named(scheme) ==
  [scheme |-> scheme, host |-> "name", addr |-> Public, port |-> TRUE]
Literal(scheme, addr) ==
  [scheme |-> scheme, host |-> "literal", addr |-> addr, port |-> TRUE]

HopTo(url, status, redirects) ==
  [url |-> url, addrs |-> <<Public>>, again |-> <<Public>>, accepts |-> {1},
   trusted |-> TRUE, status |-> status, redirects |-> redirects]

Plain == [hops |-> <<HopTo(Named("https"), 200, FALSE)>>, answers |-> TRUE, latency |-> 1,
          body_ok |-> TRUE, content |-> [size |-> 1, at |-> 1], certificate |-> TRUE, days |-> 9]

Over(hop) == [Plain EXCEPT !.hops = <<hop>>]
Through(hop) ==
  [Plain EXCEPT !.hops = <<HopTo(Named("https"), 302, TRUE), hop>>]

\* Names that resolve to public and other addresses, or to others when they are
\* looked up again, redirects to where the policy forbids and to zones, chains that are too long, answers that are slow, cut off,
\* empty or hold the match string late, certificates about to expire.
SmallTargets ==
  { Plain,
    [Plain EXCEPT !.answers = FALSE],
    [Plain EXCEPT !.latency = 2],
    [Plain EXCEPT !.latency = 3],
    [Plain EXCEPT !.body_ok = FALSE],
    [Plain EXCEPT !.content = Empty],
    [Plain EXCEPT !.content = [size |-> 1, at |-> 0]],
    [Plain EXCEPT !.content = [size |-> 3, at |-> 3]],
    [Plain EXCEPT !.certificate = FALSE],
    [Plain EXCEPT !.days = 1],
    [Plain EXCEPT !.days = -1],
    Over([Plain.hops[1] EXCEPT !.status = 404]),
    Over([Plain.hops[1] EXCEPT !.trusted = FALSE]),
    Over([Plain.hops[1] EXCEPT !.accepts = {}]),
    Over([Plain.hops[1] EXCEPT !.addrs = <<>>]),
    Over([Plain.hops[1] EXCEPT !.addrs = <<Public, Metadata>>, !.accepts = {2}]),
    Over([Plain.hops[1] EXCEPT !.addrs = <<Reserved, Public>>]),
    Over([Plain.hops[1] EXCEPT !.again = <<Metadata>>]),
    Through(HopTo(Named("http"), 200, FALSE)),
    Through(HopTo(Literal("http", Metadata), 200, FALSE)),
    Through(HopTo(Literal("http", ZonedLinkLocal), 200, FALSE)),
    Through(HopTo(Literal("http", ZonedUnspecified), 200, FALSE)),
    Through([HopTo(Named("https"), 200, FALSE) EXCEPT !.addrs = <<Public, Metadata>>,
                                                      !.accepts = {2}]),
    [Plain EXCEPT !.hops = <<HopTo(Named("https"), 302, TRUE), HopTo(Named("https"), 302, TRUE),
                             HopTo(Named("https"), 200, FALSE)>>] }

-----------------------------------------------------------------------------
(* The definitions in the operator's files.                                *)

Https ==
  [url |-> Named("https"), timeout_sec |-> 0, disable_redirects |-> FALSE,
   insecure_skip_verify |-> FALSE, status_code_op |-> "", status_code_value |-> 0,
   match_string |-> "wanted", match_mode |-> "contains", max_response_time_ms |-> 1,
   cert_expiry_warn_days |-> 3, invert_result |-> FALSE, result_detail_max_chars |-> 0]

\* Written by hand: a negative cap and timeout, no match mode.
Inverted ==
  [Https EXCEPT !.timeout_sec = -1, !.disable_redirects = TRUE, !.status_code_op = "lt",
                !.status_code_value = 302, !.match_string = "", !.match_mode = "",
                !.max_response_time_ms = -1, !.cert_expiry_warn_days = 0,
                !.invert_result = TRUE, !.result_detail_max_chars = -1]

\* What its row is exported as.
InvertedStored == CheckExportOf(Stored(Inverted))

Tcp ==
  [Https EXCEPT !.url = Named("tcp"), !.match_mode = "not_contains", !.cert_expiry_warn_days = 0]

Tls ==
  [Https EXCEPT !.url = Named("tls"), !.insecure_skip_verify = TRUE]

SmallFiles == {https, https_exported, inverted, inverted_exported, tcp, tls, tls_exported}
SmallDefinitionOf ==
  https :> Https @@ https_exported :> CheckExportOf(Https) @@
  inverted :> Inverted @@ inverted_exported :> InvertedStored @@
  tcp :> Tcp @@ tls :> Tls @@ tls_exported :> CheckExportOf(Tls)

\* Two checks, one of them three times; and a check without a guid.
SmallHandWritten ==
  { <<[guid |-> g1, def |-> https], [guid |-> g2, def |-> inverted],
      [guid |-> g1, def |-> tls], [guid |-> g1, def |-> tcp]>>,
    <<[guid |-> NoGuid, def |-> tcp]>> }
=============================================================================
