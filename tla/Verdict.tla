------------------------------- MODULE Verdict -------------------------------
(***************************************************************************)
(* One execution of a check: SchemeChecker and the HTTP, TCP and TLS       *)
(* checkers behind it (runner.go, tcp_checker.go, tls_checker.go), the     *)
(* rules they share with the server (model.go), and what execute makes of  *)
(* their result.  A checker keeps nothing, so an execution is a function   *)
(* of the policy, the check and what the network does.                     *)
(*                                                                         *)
(* Content that is read is its length and the place where the one string   *)
(* of interest ends in it, 0 when it does not occur.  Durations have one   *)
(* unit.                                                                   *)
(***************************************************************************)
EXTENDS Egress, Integers

CONSTANTS
  DefaultTimeout,   \* checkTimeout and model.DefaultCheckTimeoutSec
  SampleLen         \* model.MaxResponseSampleLen

ASSUME VerdictAssumption == DefaultTimeout \in Nat \ {0} /\ SampleLen \in Nat \ {0}

Content == [size : Nat, at : Nat]
Empty == [size |-> 0, at |-> 0]

\* model.Check, without what no rule looks at.
Definition ==
  [url : Url, timeout_sec : Int, disable_redirects : BOOLEAN, insecure_skip_verify : BOOLEAN,
   status_code_op : {"", "eq", "lt", "gt", "other"}, status_code_value : Int,
   match_string : {"", "wanted"}, match_mode : {"", "contains", "not_contains"},
   max_response_time_ms : Int, cert_expiry_warn_days : Int, invert_result : BOOLEAN,
   result_detail_max_chars : Int]

\* What happens to one execution: the connections on the way, whether and when
\* the last of them answers, and with what.
Target ==
  [hops : Seq(Hop) \ {<<>>}, answers : BOOLEAN, latency : Nat, body_ok : BOOLEAN,
   content : Content, certificate : BOOLEAN, days : Int]

-----------------------------------------------------------------------------
(* The rules of model.Check.                                               *)

Timeout(check) == IF check.timeout_sec <= 0 THEN DefaultTimeout ELSE check.timeout_sec

MatchContent(check, content) ==
  check.match_string = "" \/ (content.at > 0) = (check.match_mode # "not_contains")

StatusCodeAcceptable(check, status) ==
  \/ check.status_code_op = "" /\ status < 400
  \/ check.status_code_op = "eq" /\ status = check.status_code_value
  \/ check.status_code_op = "lt" /\ status < check.status_code_value
  \/ check.status_code_op = "gt" /\ status > check.status_code_value

ResponseTimeExceeded(check, latency) ==
  check.max_response_time_ms > 0 /\ latency > check.max_response_time_ms

CertExpiryExceeded(check, days) ==
  check.cert_expiry_warn_days > 0 /\ days <= check.cert_expiry_warn_days

InvertPassed(check, passed) == passed # check.invert_result

\* A negative cap is never met, so it cuts nothing.
TruncateContent(content, n) ==
  IF n < 0 \/ content.size <= n
  THEN content
  ELSE [size |-> n, at |-> IF content.at <= n THEN content.at ELSE 0]

SampleContent(content) == TruncateContent(content, SampleLen)

-----------------------------------------------------------------------------
(* The checkers.  Each of them applies its rules in order and ends at the  *)
(* first that is broken.                                                   *)

Broken(rules) == {i \in DOMAIN rules : rules[i][1]}
FirstBroken(rules) == IF Broken(rules) = {} THEN "" ELSE rules[Min(Broken(rules))][2]

\* The result of a checker: without an answer there is neither status nor sample.
Result(error, status, sample) ==
  [success |-> error = "", error |-> error,
   http_status |-> IF error \in {"blocked", "no port", "transport"} THEN 0 ELSE status,
   sample |-> IF error \in {"blocked", "no port", "transport", "read"} THEN Empty ELSE sample]

InTime(check, t) == t.answers /\ t.latency < Timeout(check)

\* Whether the request of hop k has a response.
Responds(policy, check, hop) ==
  /\ hop.url.scheme \in {"http", "https"}
  /\ Dial(policy, hop).conn
  /\ hop.url.scheme = "https" => hop.trusted \/ check.insecure_skip_verify

\* CheckRedirect: the chain is too long, or leads where the policy forbids.
RedirectRefused(policy, check, t, k) ==
  /\ t.hops[k].redirects /\ ~check.disable_redirects
  /\ k >= MaxHops \/ ~CheckURL(policy, t.hops[k + 1].url)

RedirectFollowed(policy, check, t, k) ==
  /\ Responds(policy, check, t.hops[k])
  /\ k < Len(t.hops)
  /\ t.hops[k].redirects /\ ~check.disable_redirects
  /\ ~RedirectRefused(policy, check, t, k)

\* The connections client.Do makes, and whether it returns a response.
Visited(policy, check, t) ==
  {k \in DOMAIN t.hops : \A j \in 1..(k - 1) : RedirectFollowed(policy, check, t, j)}

LastHop(policy, check, t) == t.hops[Max(Visited(policy, check, t))]

Fetched(policy, check, t) ==
  /\ Responds(policy, check, LastHop(policy, check, t))
  /\ ~RedirectRefused(policy, check, t, Max(Visited(policy, check, t)))

HTTPRules(policy, check, t) ==
  << <<~CheckURL(policy, check.url), "blocked">>,
     <<~InTime(check, t) \/ ~Fetched(policy, check, t), "transport">>,
     <<~t.body_ok, "read">>,
     <<~StatusCodeAcceptable(check, LastHop(policy, check, t).status), "status">>,
     <<~MatchContent(check, t.content), "match">>,
     <<ResponseTimeExceeded(check, t.latency), "response time">>,
     <<LastHop(policy, check, t).url.scheme = "https" /\ t.certificate
         /\ CertExpiryExceeded(check, t.days), "certificate">> >>

HTTPRun(policy, check, t) ==
  Result(FirstBroken(HTTPRules(policy, check, t)), LastHop(policy, check, t).status,
         SampleContent(t.content))

TCPRules(policy, check, t) ==
  << <<~check.url.port, "no port">>,
     <<~InTime(check, t) \/ ~Dial(policy, t.hops[1]).conn, "transport">>,
     <<~MatchContent(check, t.content), "match">>,
     <<ResponseTimeExceeded(check, t.latency), "response time">> >>

TCPRun(policy, check, t) ==
  Result(FirstBroken(TCPRules(policy, check, t)), 0, SampleContent(t.content))

\* The content is a summary of the certificate; the match runs on its sample.
TLSRules(policy, check, t) ==
  << <<~check.url.port, "no port">>,
     <<~InTime(check, t) \/ ~Dial(policy, t.hops[1]).conn
         \/ ~(t.hops[1].trusted \/ check.insecure_skip_verify), "transport">>,
     <<t.certificate /\ ~MatchContent(check, SampleContent(t.content)), "match">>,
     <<t.certificate /\ ResponseTimeExceeded(check, t.latency), "response time">>,
     <<t.certificate /\ CertExpiryExceeded(check, t.days), "certificate">> >>

TLSRun(policy, check, t) ==
  Result(FirstBroken(TLSRules(policy, check, t)), 0,
         IF t.certificate THEN SampleContent(t.content) ELSE Empty)

\* The policy is asked before the check is given to any checker.
SchemeCheckerRun(policy, check, t) ==
  IF ~CheckURL(policy, check.url) THEN Result("blocked", 0, Empty)
  ELSE IF check.url.scheme = "tcp" THEN TCPRun(policy, check, t)
  ELSE IF check.url.scheme = "tls" THEN TLSRun(policy, check, t)
  ELSE HTTPRun(policy, check, t)

\* The addresses an execution connects to or tries to.
Dialled(policy, check, t) ==
  IF ~CheckURL(policy, check.url) THEN {}
  ELSE IF check.url.scheme \in {"tcp", "tls"}
  THEN IF check.url.port THEN Dial(policy, t.hops[1]).dialled ELSE {}
  ELSE UNION {Dial(policy, t.hops[k]).dialled :
                k \in {j \in Visited(policy, check, t) : t.hops[j].url.scheme \in {"http", "https"}}}

-----------------------------------------------------------------------------
(* What execute does with the result.                                      *)

\* "An HTTP status or a captured response sample proves traffic flowed."
IsTransportFailure(r) == ~r.success /\ r.http_status = 0 /\ r.sample.size = 0

\* A cap of zero taken for "no cap", as zero is of the thresholds.
CappedUnlessZero(check, sample) ==
  IF check.result_detail_max_chars = 0 THEN sample
  ELSE TruncateContent(sample, check.result_detail_max_chars)

Capped(check, sample) == TruncateContent(sample, check.result_detail_max_chars)

\* The sample is capped before the gate is asked.
ExecuteCappingFirst(policy, check, t, reachable) ==
  LET run == SchemeCheckerRun(policy, check, t)
      r == [run EXCEPT !.sample = Capped(check, @)]
  IN  [recorded |-> ~IsTransportFailure(r) \/ reachable,
       success |-> InvertPassed(check, r.success), sample |-> r.sample]

\* A transport failure is dropped when Verify finds nothing reachable; what is
\* buffered is inverted and capped after that.
Execute(policy, check, t, reachable) ==
  LET r == SchemeCheckerRun(policy, check, t)
  IN  [recorded |-> ~IsTransportFailure(r) \/ reachable,
       success |-> InvertPassed(check, r.success), sample |-> Capped(check, r.sample)]
=============================================================================
