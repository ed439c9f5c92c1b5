------------------------------ MODULE PipeSync ------------------------------
(***************************************************************************)
(* ipc/namepipesync/app.cc: one server reads lines from the console and    *)
(* hands each to one of several worker processes over a single named-pipe  *)
(* instance; the worker echoes it.  A system-wide mutex is to keep one     *)
(* worker at a time on the pipe.  The server is one process, every worker  *)
(* another; each action is one system call.  The pipe and the mutex are    *)
(* the kernel's, modelled from the results the code tests.                 *)
(***************************************************************************)
EXTENDS Naturals, Sequences, FiniteSets

CONSTANTS
  Workers,     (* the processes main() starts with "worker"                *)
  Messages,    (* lines other than "exit"                                  *)
  Long,        (* those longer than the worker's 256-byte buffer           *)
  Cut,         (* a message as far as it fits in that buffer               *)
  Rest,        (* what a read of a long message leaves in the pipe         *)
  Buffered,    (* WriteFile returns before the other end has read; with    *)
               (* the buffer sizes of 0 that app.cc asks for it does not   *)
  NoOne,       (* no worker                                                *)
  MaxLines,    (* bound: lines the user types                              *)
  MaxKills     (* bound: workers the user closes                           *)

ASSUME PipeAssumption ==
  /\ NoOne \notin Workers
  /\ {"exit", ""} \cap Messages = {}
  /\ Long \subseteq Messages
  /\ Cut \in [Messages -> Messages]
  /\ \A m \in Messages \ Long : Cut[m] = m
  /\ Rest \in Messages
  /\ Buffered \in BOOLEAN
  /\ MaxLines \in Nat /\ MaxKills \in Nat

VARIABLES
  stdin,       (* lines typed and not read yet                             *)
  typed,       (* how many lines were typed                                *)
  kills,       (* how many workers were closed                             *)
  spc,         (* where the server is                                      *)
  line,        (* its variable message, "" at first                        *)
  reply,       (* what the server's last ReadFile returned, <<>> if it     *)
               (* failed or has not happened for this line                 *)
  pipe,        (* state of the instance                                    *)
  client,      (* the worker at its other end, or NoOne                    *)
  toWorker,    (* bytes written by the server and not read: messages       *)
  toServer,    (* and by the worker                                        *)
  wpc,         (* where each worker is                                     *)
  buf,         (* each worker's buffer, "" when zeroed                     *)
  mutex        (* owner of Global\MyMutex, or NoOne                        *)

vars == <<stdin, typed, kills, spc, line, reply, pipe, client, toWorker,
          toServer, wpc, buf, mutex>>

user   == <<stdin, typed, kills>>
server == <<spc, line, reply>>
kernel == <<pipe, client, toWorker, toServer>>
worker == <<wpc, buf, mutex>>

(* "none": not created yet, or closed by the server; "closing": the client *)
(* has closed its end; "cut": disconnected by the server.                  *)
PipeState == {"none", "listening", "connected", "closing", "cut"}
ServerPC  == {"create", "getline", "connect", "accept", "write", "flush",
              "read", "disconnect", "close", "done"}
WorkerPC  == {"wait", "open", "lock", "read", "write", "flush", "release",
              "close", "exited"}

PipeTypeOK ==
  /\ stdin \in Seq(Messages \cup {"exit"}) /\ typed \in Nat /\ kills \in Nat
  /\ spc \in ServerPC /\ line \in Messages \cup {"exit", ""} /\ reply \in Seq(Messages)
  /\ pipe \in PipeState /\ client \in Workers \cup {NoOne}
  /\ toWorker \in Seq(Messages) /\ toServer \in Seq(Messages)
  /\ wpc \in [Workers -> WorkerPC] /\ buf \in [Workers -> Messages \cup {""}]
  /\ mutex \in Workers \cup {NoOne}

(* main() starts the workers before server_logic() creates the pipe. *)
Init ==
  /\ stdin = <<>> /\ typed = 0 /\ kills = 0
  /\ spc = "create" /\ line = "" /\ reply = <<>>
  /\ pipe = "none" /\ client = NoOne /\ toWorker = <<>> /\ toServer = <<>>
  /\ wpc = [w \in Workers |-> "wait"]
  /\ buf = [w \in Workers |-> ""]
  /\ mutex = NoOne

-----------------------------------------------------------------------------
(* The user *)

Type(l) ==
  /\ typed < MaxLines /\ spc # "done"
  /\ stdin' = Append(stdin, l) /\ typed' = typed + 1
  /\ UNCHANGED <<kills, server, kernel, worker>>

-----------------------------------------------------------------------------
(* The server *)

SrvCreate ==
  /\ spc = "create" /\ spc' = "getline"
  /\ pipe' = "listening"
  /\ UNCHANGED <<user, line, reply, client, toWorker, toServer, worker>>

(* Defect: "exit" is sent like any other line. *)
SrvGetLineNoExit ==
  /\ spc = "getline" /\ stdin # <<>> /\ spc' = "connect"
  /\ stdin' = Tail(stdin) /\ line' = Head(stdin) /\ reply' = <<>>
  /\ UNCHANGED <<typed, kills, kernel, worker>>

SrvGetLine ==
  /\ spc = "getline" /\ stdin # <<>>
  /\ stdin' = Tail(stdin) /\ line' = Head(stdin) /\ reply' = <<>>
  /\ spc' = IF Head(stdin) = "exit" THEN "close" ELSE "connect"
  /\ UNCHANGED <<typed, kills, kernel, worker>>

(* ConnectNamedPipe: ERROR_PIPE_CONNECTED is taken for success; with       *)
(* ERROR_NO_DATA, of an end the client closed, the line is dropped and the *)
(* instance is not disconnected.                                           *)
SrvConnect ==
  /\ spc = "connect"
  /\ pipe' = IF pipe = "cut" THEN "listening" ELSE pipe
  /\ spc' = CASE pipe \in {"cut", "listening"} -> "accept"
              [] pipe = "connected"            -> "write"
              [] pipe = "closing"              -> "getline"
  /\ UNCHANGED <<user, line, reply, client, toWorker, toServer, worker>>

(* It returns once a client has come, even if the client has gone since. *)
SrvAccept ==
  /\ spc = "accept" /\ pipe \in {"connected", "closing"}
  /\ spc' = "write"
  /\ UNCHANGED <<user, line, reply, kernel, worker>>

SrvWrite ==
  /\ spc = "write"
  /\ \/ /\ pipe = "connected"
        /\ toWorker' = Append(toWorker, line)
        /\ spc' = IF Buffered THEN "read" ELSE "flush"
     \/ /\ pipe = "closing"
        /\ spc' = "read" /\ UNCHANGED toWorker
  /\ UNCHANGED <<user, line, reply, pipe, client, toServer, worker>>

(* The unbuffered write returns when everything is read or the client gone. *)
SrvFlush ==
  /\ spc = "flush" /\ (toWorker = <<>> \/ pipe = "closing")
  /\ spc' = "read"
  /\ UNCHANGED <<user, line, reply, kernel, worker>>

SrvRead ==
  /\ spc = "read"
  /\ \/ /\ toServer # <<>>
        /\ reply' = <<Head(toServer)>> /\ toServer' = Tail(toServer)
     \/ /\ toServer = <<>> /\ pipe = "closing"
        /\ reply' = <<>> /\ UNCHANGED toServer
  /\ spc' = "disconnect"
  /\ UNCHANGED <<user, line, pipe, client, toWorker, worker>>

(* Defect: what the worker has not read waits for the next one. *)
SrvDisconnectKeeping ==
  /\ spc = "disconnect" /\ spc' = "getline"
  /\ pipe' = "cut" /\ client' = NoOne /\ toServer' = <<>>
  /\ UNCHANGED <<user, line, reply, toWorker, worker>>

SrvDisconnect ==
  /\ spc = "disconnect" /\ spc' = "getline"
  /\ pipe' = "cut" /\ client' = NoOne /\ toWorker' = <<>> /\ toServer' = <<>>
  /\ UNCHANGED <<user, line, reply, worker>>

SrvClose ==
  /\ spc = "close" /\ spc' = "done"
  /\ pipe' = "none" /\ client' = NoOne /\ toWorker' = <<>> /\ toServer' = <<>>
  /\ UNCHANGED <<user, line, reply, worker>>

-----------------------------------------------------------------------------
(* A worker *)

Goto(w, pc) == wpc' = [wpc EXCEPT ![w] = pc]

Connected(w) == client = w /\ pipe = "connected"

(* Closing the worker's end of the pipe; a no-op once the server has        *)
(* disconnected or closed the instance.  Its reply can still be read.       *)
CloseEnd(w) ==
  IF Connected(w)
  THEN pipe' = "closing" /\ toWorker' = <<>> /\ UNCHANGED <<client, toServer>>
  ELSE UNCHANGED kernel

(* Defect: a dead owner keeps the mutex. *)
EndProcessOwning(w) ==
  Goto(w, "exited") /\ CloseEnd(w) /\ UNCHANGED <<server, buf, mutex>>

(* The process ends: its handles close, a mutex it owns is abandoned, and   *)
(* the next wait for an abandoned mutex succeeds.                           *)
EndProcess(w) ==
  /\ Goto(w, "exited")
  /\ CloseEnd(w)
  /\ mutex' = IF mutex = w THEN NoOne ELSE mutex
  /\ UNCHANGED <<server, buf>>

(* WaitNamedPipe, without a time limit; no instance at all is an error.     *)
WkWait(w) ==
  /\ wpc[w] = "wait"
  /\ \/ pipe = "none" /\ EndProcess(w) /\ UNCHANGED user
     \/ /\ pipe = "listening" /\ Goto(w, "open")
        /\ UNCHANGED <<user, server, kernel, buf, mutex>>

(* CreateFile: another worker may have come first (ERROR_PIPE_BUSY).        *)
WkOpen(w) ==
  /\ wpc[w] = "open"
  /\ \/ /\ pipe = "listening"
        /\ pipe' = "connected" /\ client' = w /\ Goto(w, "lock")
        /\ UNCHANGED <<user, server, toWorker, toServer, buf, mutex>>
     \/ /\ pipe \in {"connected", "closing", "cut"} /\ Goto(w, "wait")
        /\ UNCHANGED <<user, server, kernel, buf, mutex>>
     \/ pipe = "none" /\ EndProcess(w) /\ UNCHANGED user

WkLock(w) ==
  /\ wpc[w] = "lock" /\ mutex \in {NoOne, w}
  /\ mutex' = w /\ Goto(w, "read")
  /\ UNCHANGED <<user, server, kernel, buf>>

(* Defects: a failed read is tried again; the message is looked at and left *)
(* in the pipe.                                                             *)
WkReadRetrying(w) ==
  /\ wpc[w] = "read" /\ Connected(w) /\ toWorker # <<>>
  /\ buf' = [buf EXCEPT ![w] = Cut[Head(toWorker)]] /\ toWorker' = Tail(toWorker)
  /\ Goto(w, "write")
  /\ UNCHANGED <<user, server, pipe, client, toServer, mutex>>

WkReadPeeking(w) ==
  /\ wpc[w] = "read"
  /\ \/ /\ Connected(w) /\ toWorker # <<>>
        /\ buf' = [buf EXCEPT ![w] = Cut[Head(toWorker)]]
        /\ Goto(w, "write")
        /\ UNCHANGED <<user, server, kernel, mutex>>
     \/ ~Connected(w) /\ EndProcess(w) /\ UNCHANGED user

(* ReadFile of at most 256 bytes in byte mode: the rest of a long message   *)
(* stays in the pipe.  A failed read leaves the loop without ReleaseMutex.  *)
WkRead(w) ==
  /\ wpc[w] = "read"
  /\ \/ /\ Connected(w) /\ toWorker # <<>>
        /\ buf' = [buf EXCEPT ![w] = Cut[Head(toWorker)]]
        /\ toWorker' = IF Head(toWorker) \in Long THEN <<Rest>> ELSE Tail(toWorker)
        /\ Goto(w, "write")
        /\ UNCHANGED <<user, server, pipe, client, toServer, mutex>>
     \/ ~Connected(w) /\ EndProcess(w) /\ UNCHANGED user

(* WriteFile; its failure is only printed. *)
WkWrite(w) ==
  /\ wpc[w] = "write"
  /\ \/ /\ Connected(w)
        /\ toServer' = Append(toServer, buf[w])
        /\ Goto(w, IF Buffered THEN "release" ELSE "flush")
     \/ /\ ~Connected(w)
        /\ Goto(w, "release") /\ UNCHANGED toServer
  /\ UNCHANGED <<user, server, pipe, client, toWorker, buf, mutex>>

WkFlush(w) ==
  /\ wpc[w] = "flush" /\ (toServer = <<>> \/ ~Connected(w))
  /\ Goto(w, "release")
  /\ UNCHANGED <<user, server, kernel, buf, mutex>>

(* Defect: the mutex is not released. *)
WkReleaseNot(w) ==
  wpc[w] = "release" /\ Goto(w, "close") /\ UNCHANGED <<user, server, kernel, buf, mutex>>

WkRelease(w) ==
  /\ wpc[w] = "release"
  /\ mutex' = NoOne /\ Goto(w, "close")
  /\ UNCHANGED <<user, server, kernel, buf>>

WkClose(w) ==
  /\ wpc[w] = "close"
  /\ CloseEnd(w) /\ Goto(w, "wait")
  /\ buf' = [buf EXCEPT ![w] = ""]
  /\ UNCHANGED <<user, server, mutex>>

(* The user closes a worker's console window. *)
Kill(w) ==
  /\ kills < MaxKills /\ wpc[w] # "exited"
  /\ kills' = kills + 1
  /\ EndProcess(w)
  /\ UNCHANGED <<stdin, typed>>

-----------------------------------------------------------------------------

Server ==
  \/ SrvCreate \/ SrvGetLine \/ SrvConnect \/ SrvAccept \/ SrvWrite
  \/ SrvFlush \/ SrvRead \/ SrvDisconnect \/ SrvClose

Worker(w) ==
  \/ WkWait(w) \/ WkOpen(w) \/ WkLock(w) \/ WkRead(w) \/ WkWrite(w)
  \/ WkFlush(w) \/ WkRelease(w) \/ WkClose(w)

Next ==
  \/ \E l \in Messages \cup {"exit"} : Type(l)
  \/ Server
  \/ \E w \in Workers : Worker(w) \/ Kill(w)

Spec == Init /\ [][Next]_vars

(* The scheduler runs every process that can run; the user owes nothing. *)
FairSpec == Spec /\ WF_vars(Server) /\ \A w \in Workers : WF_vars(Worker(w))

-----------------------------------------------------------------------------
(* Properties *)

(* A worker that has the pipe waits for the mutex only for the worker that  *)
(* had the pipe before it, and that one no longer waits for the server: the *)
(* lock order pipe, then mutex cannot close a cycle.                        *)
HolderIsLeaving ==
  \A w, v \in Workers :
    mutex = v /\ client = w /\ v # w => wpc[v] \in {"flush", "release"}

(* What the server prints after a line is that line, as far as the worker's *)
(* buffer took it: never an echo left over from an earlier worker.          *)
EchoIsOfThisLine ==
  \A i \in DOMAIN reply : reply[i] = Cut[line]

(* The two ends are blocked writing to each other for good only when the    *)
(* line is longer than the worker's buffer: the worker echoes what it took  *)
(* while the server still waits for the rest to be read.                    *)
Crossed ==
  \E w \in Workers :
    /\ spc = "flush" /\ toWorker # <<>>
    /\ Connected(w) /\ wpc[w] = "flush" /\ toServer # <<>>

CrossedByLongLine == Crossed => line \in Long

(* A worker that dies with the pipe open before the server has accepted it  *)
(* leaves the instance for good: the server drops every further line        *)
(* (app.cc:50-54 does not disconnect) and no worker gets a pipe again.      *)
Wedged == pipe = "closing" /\ spc \in {"getline", "connect", "close"}
WedgeIsForever == [](Wedged => [](Wedged \/ spc = "done"))

(* Every line is answered, unless a worker is killed meanwhile, all workers *)
(* are gone (they exit when they run before the server has created the      *)
(* pipe, app.cc:74-77), the two ends have blocked each other, or the        *)
(* instance is wedged.                                                      *)
Answered ==
  \/ \A w \in Workers : <>[](wpc[w] = "exited")
  \/ <>[]Crossed
  \/ <>[]Wedged
  \/ \A k \in 0..MaxKills :
       spc = "connect" /\ kills = k ~> reply # <<>> \/ kills > k

(* A worker that asks for the mutex gets it, also from one that died with   *)
(* it or that is still answering a server it has lost.                      *)
LockGranted == \A w \in Workers : wpc[w] = "lock" ~> wpc[w] # "lock"

(* Once the server has quit, every worker ends, whatever it was waiting     *)
(* for: the pipe, the mutex or a message.                                   *)
WorkersFollow == spc = "done" ~> \A w \in Workers : wpc[w] = "exited"

(* What the server prints at app.cc:28: "type 'exit' to quit". *)
ExitQuits ==
  (\E i \in DOMAIN stdin : stdin[i] = "exit") ~> spc = "done"

=============================================================================
