--------------------------- MODULE ErrorConversions --------------------------
(****************************************************************************)
(* One failure of a method of RpcClient on its way to the caller of the     *)
(* procedure: how the method makes an error of it (src/rpc_client/client.rs) *)
(* and the conversions between the error types (src/rpc_client/error.rs,    *)
(* src/lib.rs) that the ? operator and the procedure apply to it, any       *)
(* number of times and in any order.                                        *)
(****************************************************************************)
EXTENDS RpcCall

CONSTANT RpcRequests    \* RpcRequest

VARIABLES
  error,         \* what the procedure holds: its form, its kind and the request it names
  cause          \* history: the request that failed, "none" if none was made

\* ErrorKind, and RpcError within it.
Kinds == {"Io", "RpcRequestError", "RpcResponseError", "ParseError", "ForUser",
          "SerdeJson", "SigningError", "TransactionError", "Custom"}

\* Error, ErrorKind, TransportError, and the RpcError a procedure returns.
Forms == {"Error", "ErrorKind", "TransportError", "RpcError"}

Names == RpcRequests \cup {"none"}

NoError == [form |-> "none", kind |-> "none", request |-> "none"]

ErrorTypeOK ==
  /\ error = NoError \/ error \in [form : Forms, kind : Kinds \cup {"Internal"}, request : Names]
  /\ cause \in Names

ErrorInit == error = NoError /\ cause = "none"

------------------------------------------------------------------------------
(* Where errors come from.                                                  *)

Fails(kind, named, request) ==
  /\ error = NoError
  /\ error' = [form |-> "Error", kind |-> kind, request |-> named]
  /\ cause' = request

\* RpcClient::send names its request.
SendFails(kind) ==
  /\ kind \in SendError
  /\ \E request \in RpcRequests : Fails(kind, request, request)

\* new_with_request: a reply that decodes and says nothing of use.
new_with_request(kind) ==
  /\ kind \in {"ParseError", "SerdeJson", "Custom"}
  /\ \E request \in RpcRequests : Fails(kind, request, request)

\* From<RpcError>, From<ErrorKind>: errors that methods make up themselves, about a
\* reply or instead of the error of send.
MadeUp(kind) ==
  /\ kind \in {"ForUser", "RpcRequestError", "ParseError", "Custom"}
  /\ \E request \in RpcRequests : Fails(kind, "none", request)

\* From<io::Error>, From<SignerError>, and what cannot be encoded.
BeforeRequest(kind) ==
  /\ kind \in {"Io", "SigningError", "Custom"}
  /\ Fails(kind, "none", "none")

\* The status of a transaction that was executed and failed: e.into().
TransactionFails(kind) ==
  /\ kind = "TransactionError"
  /\ \E request \in RpcRequests : Fails(kind, "none", request)

Arises(kind) ==
  \/ SendFails(kind) \/ new_with_request(kind) \/ MadeUp(kind)
  \/ BeforeRequest(kind) \/ TransactionFails(kind)

------------------------------------------------------------------------------
(* Conversions.                                                             *)

\* Not the code: only I/O errors have a counterpart.
ToTransport_IoOnly(e) ==
  [form |-> "TransportError", request |-> "none",
   kind |-> IF e.kind = "Io" THEN e.kind ELSE "Custom"]

\* From<ErrorKind> and From<Error> for TransportError: what has no counterpart
\* becomes text, and so does the request.
ToTransport(e) ==
  [form |-> "TransportError", request |-> "none",
   kind |-> IF e.kind \in {"Io", "TransactionError"} THEN e.kind ELSE "Custom"]

\* From<TransportError> for ErrorKind and for Error: the three variants have their own.
FromTransport(e, form) == [e EXCEPT !.form = form]

\* Error::kind, and From<ErrorKind> for Error.
ToKind(e) == [e EXCEPT !.form = "ErrorKind", !.request = "none"]
FromKind(e) == [e EXCEPT !.form = "Error"]

\* into_with_request: with the request of the method that failed.
into_with_request(e, request) == [e EXCEPT !.request = request]

\* From<ClientError> for the RpcError of a procedure: 500 and a message.
ToProcedure(e) == [form |-> "RpcError", kind |-> "Internal", request |-> "none"]

Convert ==
  /\ \/ error.form \in {"Error", "ErrorKind"} /\ error' = ToTransport(error)
     \/ error.form = "TransportError" /\ \E form \in {"Error", "ErrorKind"} : error' = FromTransport(error, form)
     \/ error.form = "Error" /\ error' = ToKind(error)
     \/ error.form = "ErrorKind" /\ error' = FromKind(error)
     \/ error.form = "Error" /\ cause # "none" /\ error' = into_with_request(error, cause)
     \/ error.form = "Error" /\ error' = ToProcedure(error)
  /\ UNCHANGED cause

\* ErrorKind::get_transaction_error: send never builds the data of a failed preflight,
\* so one variant is left to look at.
get_transaction_error(e) == IF e.kind = "TransactionError" THEN "Some" ELSE "None"
==============================================================================
