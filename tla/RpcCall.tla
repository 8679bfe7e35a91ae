------------------------------- MODULE RpcCall -------------------------------
(****************************************************************************)
(* What becomes of one reply of the host.  zela_std::call_rpc (src/lib.rs)  *)
(* turns the host's answer into a Rust result, and RpcClient::send          *)
(* (src/rpc_client/client.rs) turns that into a ClientResult.  Every method *)
(* of the client goes through these two functions.                          *)
(****************************************************************************)

\* What the bytes of a reply are: JSON of the type its receiver asks for,
\* JSON of another type, not JSON at all, or no bytes (an error without data).
Bytes == {"typed", "untyped", "garbled", "absent"}

\* The answers of zela_host::call-rpc: a result, a JSON-RPC error with optional
\* data, or a WASI errno.
HostReply ==
       [tag : {"result"},   body : Bytes \ {"absent"}]
  \cup [tag : {"rpcError"}, body : Bytes]
  \cup [tag : {"errno"},    body : {"absent"}]

\* serde_json::Value decodes from any JSON.
JsonValue == {"typed", "untyped"}

\* call_rpc::<_, Rs, Re>: Rs and Re are the kinds of bytes the two types decode
\* from.  An error whose data does not decode loses its code and its message.
call_rpc(reply, Rs, Re) ==
  CASE reply.tag = "errno" -> "Errno"
    [] reply.tag = "result" /\ reply.body \in Rs -> "Ok"
    [] reply.tag = "rpcError" /\ reply.body \in Re \cup {"absent"} -> "RpcError"
    [] OTHER -> "InvalidInput"

\* Not the code: send without the arm that wraps a failed host call.
send_Unwrapped(reply) ==
  LET response == call_rpc(reply, JsonValue, JsonValue) IN
  CASE response = "RpcError" -> "RpcResponseError"
    [] response = "Ok" /\ reply.body = "typed" -> "Ok"
    [] response = "Ok" /\ reply.body # "typed" -> "SerdeJson"
    [] OTHER -> response

\* RpcClient::send::<T>, with T decoding from "typed" bytes only: the result is
\* "Ok" or the ClientErrorKind of the error.
send(reply) ==
  LET response == call_rpc(reply, JsonValue, JsonValue) IN
  CASE response = "RpcError" -> "RpcResponseError"
    [] response = "Ok" /\ reply.body = "typed" -> "Ok"
    [] response = "Ok" /\ reply.body # "typed" -> "SerdeJson"
    [] OTHER -> "Custom"

\* The error kinds send can return.
SendError == {"RpcResponseError", "SerdeJson", "Custom"}
==============================================================================
