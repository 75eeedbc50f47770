-------------------------------- MODULE Wire --------------------------------
(***************************************************************************)
(* The TCP connections of the transmission thread, one per thread started. *)
(* The protocol is strict request and reply, so each direction holds at    *)
(* most one message.  A connection that is lost is "cut": the client hears *)
(* nothing more from it, while the child of the server at the other end    *)
(* lives on until it notices, and may still carry out a request that had   *)
(* reached it.                                                             *)
(***************************************************************************)
EXTENDS DroneStore

CONSTANTS
  Conns,     \* slots for connections that exist at the same time
  NoConn     \* transmission_sk before the connection is open

ASSUME ConnAssumption == NoConn \notin Conns

VARIABLES
  link,    \* Conns -> "free", "up" or "cut"
  req,     \* the command in the socket, or in the child's hands
  rep      \* the reply on its way to the client

wireVars == <<link, req, rep>>

Request(op, s, k) == [op |-> op, s |-> s, k |-> k]
NoReq == Request("none", NoSession, 0)

\* ok: the bytes that follow the line are a whole file of the logger.
Reply(op, s, k, ok) == [op |-> op, s |-> s, k |-> k, ok |-> ok]
NoRep == Reply("none", NoSession, 0, FALSE)

RequestOps == {"none", "SEND_NEXT", "REMOVE_FILE", "REMOVE_DIR", "SEND_FILE", "CLOSE"}
ReplyOps == {"none", "ERROR", "NO_TR", "WAIT", "SENDING", "EMPTY", "REQUESTED", "REMOVED"}

Requests == [op : RequestOps, s : Nat, k : Nat]
Replies  == [op : ReplyOps, s : Nat, k : Nat, ok : BOOLEAN]

WireTypeOK ==
  /\ link \in [Conns -> {"free", "up", "cut"}]
  /\ req \in [Conns -> Requests]
  /\ rep \in [Conns -> Replies]

WireInit ==
  /\ link = [c \in Conns |-> "free"]
  /\ req = [c \in Conns |-> NoReq]
  /\ rep = [c \in Conns |-> NoRep]

\* The item that a SENDING or a SENDING REQUESTED reply carries.
ItemOf(r) == IF r.op = "SENDING" THEN Pcd(r.s, r.k) ELSE Ext(r.s, r.k)

\* The connection is lost; a reply on its way is lost with it, and so is a
\* request when keep is FALSE.
Cut(c, keep) ==
  /\ link' = [link EXCEPT ![c] = "cut"]
  /\ rep' = [rep EXCEPT ![c] = NoRep]
  /\ req' = IF keep THEN req ELSE [req EXCEPT ![c] = NoReq]
=============================================================================
