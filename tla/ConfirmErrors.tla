----------------------------- MODULE ConfirmErrors ---------------------------
(****************************************************************************)
(* A procedure that calls send_and_confirm_transaction (SendAndConfirm) and *)
(* then decides, from the error it got, whether the transaction was         *)
(* executed: the error goes through any of the conversions of               *)
(* ErrorConversions before get_transaction_error is asked.                  *)
(****************************************************************************)
EXTENDS SendAndConfirm

VARIABLES error, cause

E == INSTANCE ErrorConversions WITH RpcRequests <- Requests \ {"sleep"}

\* The kind of the error that a result stands for; a trap is no error.
KindOf(r) == IF r = "Unable" THEN "ForUser" ELSE r

\* The call has returned Err.
Catch ==
  /\ pc = "done" /\ result \notin {"Ok", "Trap"}
  /\ E!Arises(KindOf(result))
  /\ UNCHANGED vars

Convert ==
  /\ E!Convert
  /\ UNCHANGED vars

ConfirmInit == Init /\ E!ErrorInit

ConfirmNext == (Next /\ UNCHANGED <<error, cause>>) \/ Catch \/ Convert

ConfirmSpec == ConfirmInit /\ [][ConfirmNext]_<<vars, error, cause>> /\ Fairness

------------------------------------------------------------------------------
(* Properties.                                                              *)

\* However often the error of a confirmation was converted, and whatever the chain did
\* since, get_transaction_error is Some for a transaction that was executed and
\* failed, which is then on the chain, and None for all other failures; and
\* request() names the request that failed or none (error.rs:23-38, 41-61, 74-98,
\* client.rs:105-107, 128-134).
ErrorTellsTheTruth ==
  error.form \in {"Error", "ErrorKind"} =>
    /\ result = "TransactionError" => E!get_transaction_error(error) = "Some"
    /\ (E!get_transaction_error(error) = "Some" /\ ~Forked) =>
         landed \in 1..Frontier(Commitment) /\ ~txOk
    /\ error.request \in {"none", cause}
==============================================================================
