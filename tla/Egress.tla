------------------------------- MODULE Egress -------------------------------
(***************************************************************************)
(* What a monitor may connect to: Policy (egress.go) and the rules of the  *)
(* model package it applies (restricted.go), as operators on a URL and on  *)
(* what the resolver and the network answer.                               *)
(*                                                                         *)
(* An address is told apart by the first of Go's predicates, or of         *)
(* reservedRanges, that holds of it.  A lookup that fails and one that     *)
(* finds nothing both give no address.                                     *)
(***************************************************************************)
EXTENDS Naturals, Sequences, FiniteSets, FiniteSetsExt

CONSTANT MaxHops    \* requests of one redirect chain: 10

ASSUME MaxHopsAssumption == MaxHops \in Nat \ {0}

Policies == {"open", "strict"}

\* What an address reaches is its range, in whichever form it is written: plain,
\* an IPv4 address mapped into IPv6, or an IPv6 address with a zone.
Addr == [range : {"public", "loopback", "private", "link_local", "multicast",
                  "unspecified", "reserved", "invalid"},
         form : {"plain", "mapped", "zoned"}]

\* host: a literal address, a name that only means something inside a network,
\* any other name, or none.  Scheme "" stands for a URL that does not parse.
Url == [scheme : {"", "http", "https", "tcp", "tls", "other"},
        host : {"", "localhost", "internal", "literal", "name"},
        addr : Addr, port : BOOLEAN]

\* One connection on the way to a response: where to, what its name resolves
\* to, and would resolve to if it were looked up again, which of the addresses
\* dialled accept, and how the server there answers.
Hop == [url : Url, addrs : Seq(Addr), again : Seq(Addr), accepts : SUBSET Nat,
        trusted : BOOLEAN, status : 100..599, redirects : BOOLEAN]

-----------------------------------------------------------------------------
AllowedSchemes == {"http", "https", "tcp", "tls"}

\* addr.Unmap(): it takes a mapping away, not a zone.
Unmap(addr) == [addr EXCEPT !.form = IF @ = "mapped" THEN "plain" ELSE @]

\* No predicate and no range holds of it as it is written.  IsUnspecified
\* compares with the plain 0.0.0.0 and ::, and Prefix.Contains is false of a
\* mapped address and of one with a zone; the other predicates look at the bits.
LooksPublic(addr) ==
  \/ addr.range = "public"
  \/ addr.form # "plain" /\ addr.range \in {"unspecified", "reserved"}

RestrictedAddr(addr) == ~LooksPublic(Unmap(addr))

RestrictedURL(url) ==
  \/ url.scheme \notin AllowedSchemes
  \/ url.host \in {"", "localhost", "internal"}
  \/ url.host = "literal" /\ RestrictedAddr(url.addr)

\* Whether Policy.CheckURL returns no error.
CheckURL(policy, url) == policy # "strict" \/ ~RestrictedURL(url)

\* The addresses of this hop's host: itself when it is a literal, else what one
\* lookup of the name answers.
Resolve(hop) == IF hop.url.host = "literal" THEN <<hop.url.addr>> ELSE hop.addrs

-----------------------------------------------------------------------------
(* Dialling.  A dial says which addresses it connected to, or tried to, and *)
(* whether it has a connection.                                            *)

Accepting(hop, addrs) == DOMAIN addrs \cap hop.accepts

NoDial == [dialled |-> {}, conn |-> FALSE]

\* The addresses in order up to the first that accepts.
DialInOrder(hop, addrs) ==
  LET tried == {i \in DOMAIN addrs : \A j \in Accepting(hop, addrs) : i <= j}
  IN  [dialled |-> {addrs[i] : i \in tried}, conn |-> Accepting(hop, addrs) # {}]

Refuses(addrs) == addrs = <<>> \/ \E i \in DOMAIN addrs : RestrictedAddr(addrs[i])

\* The addresses are validated, and then the name is dialled.
PinnedDialByName(hop) ==
  IF Refuses(Resolve(hop)) THEN NoDial
  ELSE DialInOrder(hop, IF hop.url.host = "literal" THEN <<hop.url.addr>> ELSE hop.again)

\* Every resolved address must pass, then those that were checked are dialled.
PinnedDialContext(hop) ==
  IF Refuses(Resolve(hop)) THEN NoDial ELSE DialInOrder(hop, Resolve(hop))

\* net.Dialer resolves by itself, and may try several addresses at once.
OpenDial(hop) ==
  LET addrs == Resolve(hop)
  IN  [dialled |-> {addrs[i] : i \in DOMAIN addrs}, conn |-> Accepting(hop, addrs) # {}]

Dial(policy, hop) == IF policy = "strict" THEN PinnedDialContext(hop) ELSE OpenDial(hop)
=============================================================================
