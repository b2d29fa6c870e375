--------------------------- MODULE MCRequestPipeline ---------------------------
(* Four clients where the table has room for two, one account, two logins   *)
(* in flight, every layer installed.                                        *)
EXTENDS RequestPipeline, TLC

CONSTANTS c1, c2, c3, c4, k1, l1, l2

MCInstalled == Always \cup Optional

(* From the watched client a page, a form, a forged form, and a preflight   *)
(* and a form that several layers would refuse; forms from another one, and *)
(* pages from the rest.                                                     *)
MCRequests == {r \in Clientele :
    \/ /\ r.client = c1
       /\ <<r.method, r.host, r.origin>> \in
            {<<"safe", "known", "other">>, <<"unsafe", "known", "allowed">>,
             <<"unsafe", "known", "other">>, <<"preflight", "unknown", "other">>,
             <<"unsafe", "unknown", "other">>}
    \/ r.client = c2 /\ r.method = "unsafe" /\ r.host = "known" /\ r.origin = "allowed"
    \/ r.client \in {c3, c4} /\ r.method = "safe" /\ r.host = "known" /\ r.origin = "other"}
==============================================================================
