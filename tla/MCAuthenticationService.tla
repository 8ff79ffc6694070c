---------------------- MODULE MCAuthenticationService ----------------------
(***************************************************************************)
(* One backend worker, one or two frontend workers, one place in each     *)
(* queue and in the heap, and workloads that differ in what their requests *)
(* have in common: a negative key, a request id, a right credential, an    *)
(* unknown account, a credential the filter screens.  One workload has a   *)
(* request more than the service admits at once and, with three logins of  *)
(* one wrong password, a waiter more than its flight takes.                *)
(***************************************************************************)
EXTENDS AuthenticationService

CONSTANTS wrong, right, screened, w1, w2, w3, again, good1, good2, out, f1, f2, b1

MCReleases == Completions
\* The account of "again" is unknown, and its request id is that of w1.
MCIdOf == [r \in Requests |-> IF r = again THEN w1 ELSE r]
MCKeyOf == [r \in Requests |-> CASE r \in {w1, w2, w3} -> wrong
                                [] r \in {good1, good2} -> right
                                [] r = out -> screened
                                [] OTHER -> NoKey]
Load(requests, shutdown, pad, frontends) ==
    [requests |-> requests, shutdown |-> shutdown, padded |-> pad, frontends |-> frontends]
MCWorkloads == {Load({w1, w2, again}, FALSE, TRUE, {f1, f2}),
                Load({good1, good2}, FALSE, TRUE, {f1, f2}),
                Load({out}, FALSE, TRUE, {f1}),
                Load({w1, w2, w3, out}, FALSE, FALSE, {f1}),
                Load({w1}, TRUE, TRUE, {f1, f2}),
                Load({w1, w2}, TRUE, FALSE, {f1})}
=============================================================================
