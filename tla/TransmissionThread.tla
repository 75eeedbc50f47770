------------------------- MODULE TransmissionThread -------------------------
(***************************************************************************)
(* The transmission thread of the client (app/client/client_lib.c) and the *)
(* disk it writes to.  It asks for the next file, writes it below the      *)
(* session's "-active" directory, has it removed from the drone, and when  *)
(* a session is EMPTY fetches the remaining files, has the session's       *)
(* directory removed and renames its own.                                  *)
(***************************************************************************)
EXTENDS DroneStore, Wire

VARIABLES
  tpc,       \* where the thread is; "off" when there is none
  run,       \* t->running, cleared to stop the thread
  stat,      \* t->status: 1 running, 0 ended, -1 fatal error, -2 connection lost
  tconn,     \* transmission_sk
  tr,        \* t->tr.d.first, the session of the last SENDING; it outlives the thread
  tdir,      \* transmission_dir, the session whose "-active" directory it names
  folder,    \* folder, the session that EMPTY named
  xi,        \* the next file of RequestAllReaminingFiles
  cur,       \* the reply whose file is being received
  adirs,     \* disk: sessions with a "<session>-active" directory
  copies,    \* disk: items with a whole copy
  fdirs,     \* disk: <<f, s>>, the active directory of s was renamed to f
  delivered  \* history: items that once had a whole copy on the disk

threadVars == <<tpc, run, stat, tconn, tr, tdir, folder, xi, cur>>
diskVars == <<adirs, copies, fdirs, delivered>>

\* The thread is about to write on its socket, or blocked reading from it.
Sends == {"next", "remove", "extra", "rmdir"}
Waits == {"wait_next", "body", "wait_remove", "wait_extra", "wait_rmdir"}
ThreadPCs == {"off", "connect", "write"} \cup Sends \cup Waits

ThreadTypeOK ==
  /\ tpc \in ThreadPCs
  /\ run \in BOOLEAN
  /\ stat \in {-2, -1, 0, 1}
  /\ tconn \in Conns \cup {NoConn}
  /\ tr \in Sessions \cup {NoSession}
  /\ tdir \in Sessions \cup {NoSession}
  /\ folder \in Sessions \cup {NoSession}
  /\ xi \in 1..(NumExtras + 1)
  /\ cur \in Replies

DiskTypeOK ==
  /\ adirs \subseteq Sessions
  /\ copies \subseteq Items
  /\ fdirs \subseteq Sessions \X Sessions
  /\ delivered \subseteq Items

ThreadInit ==
  /\ tpc = "off"
  /\ run = FALSE
  /\ stat = 0
  /\ tconn = NoConn
  /\ tr = NoSession
  /\ tdir = NoSession
  /\ folder = NoSession
  /\ xi = 1
  /\ cur = NoRep

DiskInit ==
  /\ adirs = {}
  /\ copies = {}
  /\ fdirs = {}
  /\ delivered = {}

LinkUp == tconn # NoConn /\ link[tconn] = "up"

\* CreateTransmissionThread and the first statement of the thread.  Nothing
\* initialises transmission_dir: it holds what the stack held, the value of
\* the thread before or nothing that names a directory.
CreateTransmissionThread ==
  /\ tpc = "off"
  /\ tpc' = "connect"
  /\ run' = TRUE
  /\ stat' = 1
  /\ tdir' \in {tdir, NoSession}
  /\ UNCHANGED <<tconn, tr, folder, xi, cur, diskVars, wireVars>>

\* ExitTransmissionThread: the locals are gone, the status tells why.
Leave(code) ==
  /\ tpc' = "off"
  /\ stat' = code
  /\ tconn' = NoConn
  /\ folder' = NoSession
  /\ xi' = 1
  /\ cur' = NoRep
  /\ UNCHANGED <<run, tdir>>

HangUp == req' = [req EXCEPT ![tconn] = Request("CLOSE", NoSession, 0)]

\* The test at the end of the do loop, on a connection that is up.
Again ==
  \/ /\ run
     /\ tpc' = "next"
     /\ folder' = NoSession
     /\ xi' = 1
     /\ cur' = NoRep
     /\ UNCHANGED <<run, stat, tconn, tdir, req>>
  \/ /\ ~run
     /\ Leave(0)
     /\ HangUp

\* create_tcp_client_connection: the server accepts and forks a child.
OpenConnection ==
  /\ tpc = "connect"
  /\ \E c \in Conns :
       /\ link[c] = "free"
       /\ link' = [link EXCEPT ![c] = "up"]
       /\ tconn' = c
  /\ tpc' = "next"
  /\ UNCHANGED <<run, stat, tr, tdir, folder, xi, cur, diskVars, req, rep>>

\* The server cannot be reached: the thread ends with the fatal status.
ConnectFails ==
  /\ tpc = "connect"
  /\ Leave(-1)
  /\ UNCHANGED <<tr, diskVars, wireVars>>

\* The request that each sending state makes.
NextRequest ==
  CASE tpc = "next"   -> Request("SEND_NEXT", NoSession, 0)
    [] tpc = "remove" -> Request("REMOVE_FILE", cur.s, cur.k)
    [] tpc = "extra"  -> Request("SEND_FILE", tr, xi)
    [] tpc = "rmdir"  -> Request("REMOVE_DIR", folder, 0)

WaitAfter(pc) ==
  CASE pc = "next"   -> "wait_next"
    [] pc = "remove" -> "wait_remove"
    [] pc = "extra"  -> "wait_extra"
    [] pc = "rmdir"  -> "wait_rmdir"

\* TcpSendReceiveTT, the sending half.
TcpSendTT ==
  /\ tpc \in Sends
  /\ LinkUp
  /\ req' = [req EXCEPT ![tconn] = NextRequest]
  /\ tpc' = WaitAfter(tpc)
  /\ UNCHANGED <<run, stat, tconn, tr, tdir, folder, xi, cur, diskVars, link, rep>>

\* TcpSendReceiveTT, tcp_binary_getchar_bs, ReceiveAndDecompress: write or read
\* fails, the thread ends so that the main thread resumes it.
ConnectionLost ==
  /\ tpc \in Sends \cup Waits
  /\ ~LinkUp
  /\ Leave(-2)
  /\ UNCHANGED <<tr, diskVars, wireVars>>

\* The reading half: the reply line that state pc waits for has arrived.
Received(pc, op) ==
  /\ tpc = pc
  /\ LinkUp
  /\ rep[tconn].op = op
Consume == rep' = [rep EXCEPT ![tconn] = NoRep]

\* Any reply that starts with ERROR ends the thread with the fatal status.
ReceiveError ==
  /\ \E pc \in {"wait_next", "wait_remove", "wait_extra", "wait_rmdir"} : Received(pc, "ERROR")
  /\ Consume
  /\ Leave(-1)
  /\ HangUp
  /\ UNCHANGED <<tr, diskVars, link>>

\* WAIT: sleep and ask again, unless the user has stopped the thread.
ReceiveWaitDeaf ==     \* mutant: running is not tested
  /\ Received("wait_next", "WAIT")
  /\ Consume
  /\ tpc' = "next"
  /\ UNCHANGED <<run, stat, tconn, tr, tdir, folder, xi, cur, diskVars, link, req>>

ReceiveWait ==
  /\ Received("wait_next", "WAIT")
  /\ Consume
  /\ Again
  /\ UNCHANGED <<tr, diskVars, link>>

ReceiveNoTrAgain ==    \* mutant: NO_TR handled as WAIT
  /\ Received("wait_next", "NO_TR")
  /\ Consume
  /\ Again
  /\ UNCHANGED <<tr, diskVars, link>>

ReceiveNoTr ==
  /\ Received("wait_next", "NO_TR")
  /\ Consume
  /\ Leave(0)
  /\ HangUp
  /\ UNCHANGED <<tr, diskVars, link>>

\* SENDING: publish the session, make sure its active directory exists; the
\* compressed bytes are still to be read.
ReceiveSending ==
  /\ Received("wait_next", "SENDING")
  /\ tr' = rep[tconn].s
  /\ tdir' = rep[tconn].s
  /\ adirs' = adirs \cup {rep[tconn].s}
  /\ cur' = rep[tconn]
  /\ tpc' = "body"
  /\ UNCHANGED <<run, stat, tconn, folder, xi, copies, fdirs, delivered, wireVars>>

\* EMPTY: fetch the remaining files of the session last received.
ReceiveEmptyDone ==    \* mutant: the remaining files are not requested
  /\ Received("wait_next", "EMPTY")
  /\ Consume
  /\ folder' = rep[tconn].s
  /\ tpc' = "rmdir"
  /\ UNCHANGED <<run, stat, tconn, tr, tdir, xi, cur, diskVars, link, req>>

ReceiveEmpty ==
  /\ Received("wait_next", "EMPTY")
  /\ Consume
  /\ folder' = rep[tconn].s
  /\ xi' = 1
  /\ tpc' = "extra"
  /\ UNCHANGED <<run, stat, tconn, tr, tdir, cur, diskVars, link, req>>

\* RequestFile: the answer to SEND_FILE.
ReceiveRequested ==
  /\ Received("wait_extra", "REQUESTED")
  /\ cur' = rep[tconn]
  /\ tpc' = "body"
  /\ UNCHANGED <<run, stat, tconn, tr, tdir, folder, xi, diskVars, wireVars>>

\* ReceiveAndDecompress has the bytes and END; copy_buffer_in_file opens the
\* local file with "wb", which empties a copy that was there.
OpenLocal ==
  /\ tpc = "body"
  /\ LinkUp
  /\ Consume
  /\ \/ /\ tdir \in adirs
        /\ copies' = copies \ {ItemOf(cur)}
        /\ tpc' = "write"
        /\ UNCHANGED <<run, stat, tconn, tdir, folder, xi, cur, req>>
     \/ /\ tdir \notin adirs
        /\ Leave(-1)
        /\ HangUp
        /\ UNCHANGED copies
  /\ UNCHANGED <<tr, adirs, fdirs, delivered, link>>

\* copy_buffer_in_file returns 0 and the thread goes on: with REMOVE_FILE, or
\* with the next of the remaining files.
AfterWrite ==
  \/ /\ cur.op = "SENDING"
     /\ tpc' = "remove"
     /\ UNCHANGED <<xi, cur>>
  \/ /\ cur.op # "SENDING"
     /\ tpc' = IF xi < NumExtras THEN "extra" ELSE "rmdir"
     /\ xi' = xi + 1
     /\ cur' = NoRep

\* fwrite and fclose: the local file holds what was received.
CloseLocal ==
  /\ tpc = "write"
  /\ LET written == IF cur.ok THEN {ItemOf(cur)} ELSE {} IN
       /\ copies' = copies \cup written
       /\ delivered' = delivered \cup written
  /\ AfterWrite
  /\ UNCHANGED <<run, stat, tconn, tr, tdir, folder, adirs, fdirs, wireVars>>

\* fwrite leaves the bytes in the buffer of the stream and fclose cannot write
\* them; its result is not tested.
FlushFails ==
  /\ tpc = "write"
  /\ AfterWrite
  /\ UNCHANGED <<run, stat, tconn, tr, tdir, folder, diskVars, wireVars>>

\* fwrite fails: decompressor returns an error, which is fatal.
WriteIgnored ==        \* mutant: the result of decompressor is not tested
  /\ tpc = "write"
  /\ cur.op = "SENDING"
  /\ tpc' = "remove"
  /\ UNCHANGED <<run, stat, tconn, tr, tdir, folder, xi, cur, diskVars, wireVars>>

WriteFails ==
  /\ tpc = "write"
  /\ Leave(-1)
  /\ req' = IF LinkUp THEN [req EXCEPT ![tconn] = Request("CLOSE", NoSession, 0)] ELSE req
  /\ UNCHANGED <<tr, diskVars, link, rep>>

\* The drone has removed the frame.
ReceiveRemoved ==
  /\ Received("wait_remove", "REMOVED")
  /\ Consume
  /\ Again
  /\ UNCHANGED <<tr, diskVars, link>>

\* The drone has removed the session: rename the local directory.
ReceiveDirRemoved ==
  /\ Received("wait_rmdir", "REMOVED")
  /\ Consume
  /\ adirs' = adirs \ {tdir}
  /\ fdirs' = IF tdir \in adirs THEN fdirs \cup {<<folder, tdir>>} ELSE fdirs
  /\ Again
  /\ UNCHANGED <<tr, copies, delivered, link>>

\* Steps of the thread that need no fault; ConnectFails, WriteFails and FlushFails
\* do.
ThreadStep ==
  \/ OpenConnection
  \/ TcpSendTT
  \/ ConnectionLost
  \/ ReceiveError
  \/ ReceiveWait
  \/ ReceiveNoTr
  \/ ReceiveSending
  \/ ReceiveEmpty
  \/ ReceiveRequested
  \/ OpenLocal
  \/ CloseLocal
  \/ ReceiveRemoved
  \/ ReceiveDirRemoved
=============================================================================
