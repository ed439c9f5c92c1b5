--------------------------- MODULE PipeSync_proofs ---------------------------
(***************************************************************************)
(* Proofs about PipeSync, for any number of workers, lines and kills, over *)
(* a buffered or an unbuffered pipe: what the safety properties of its     *)
(* runs say of two workers.  They follow from the inductive invariant      *)
(* PipeInv, which says for every position of the server and of a worker in *)
(* app.cc what the pipe, the mutex and the buffers are then.               *)
(***************************************************************************)
EXTENDS PipeSync, TLAPS

-----------------------------------------------------------------------------
(* The inductive invariant *)

(* The server has accepted a worker and written the line (app.cc:40-49). *)
Midway == {"flush", "read", "disconnect"}
(* A worker has opened the pipe and is yet to answer (app.cc:90-98). *)
Asking == {"lock", "read", "write"}
(* Between WaitForSingleObject and ReleaseMutex (app.cc:95-108). *)
Holding == {"read", "write", "flush", "release"}
(* The instance has a client, or one that closed its end. *)
InUse == {"connected", "closing"}

(* From std::getline to DisconnectNamedPipe the server has a line to send; *)
(* "exit" never gets that far.                                             *)
LineInHand ==
  spc \in {"connect", "accept", "write"} \cup Midway => line \in Messages

(* The instance and its client: who may be at the other end, from which    *)
(* positions of the worker, and that a pipe nobody has holds nothing.      *)
PipeEnds ==
  /\ pipe \in InUse <=> client # NoOne
  /\ pipe # "connected" => toWorker = <<>>
  /\ pipe \notin InUse => toServer = <<>>
  /\ \A w \in Workers : client = w /\ pipe = "closing" => wpc[w] \in {"wait", "exited"}
  /\ \A w \in Workers : Connected(w) => wpc[w] \in Asking \cup {"flush", "release", "close"}

(* The server's position and the instance: it writes and reads only while  *)
(* one is in use, and accepts only one it has not disconnected.            *)
ServerView ==
  /\ spc \in {"create", "done"} <=> pipe = "none"
  /\ spc \in {"write"} \cup Midway => pipe \in InUse
  /\ spc = "accept" => pipe # "cut"

(* The owner of the mutex is the worker between lock and release. *)
MutexHeld == \A w \in Workers : mutex = w <=> wpc[w] \in Holding

(* A worker that still has to answer is connected, and the server will not *)
(* disconnect it before, unless the server has quit.                       *)
AskersConnected ==
  \A w \in Workers : wpc[w] \in Asking =>
    (Connected(w) /\ spc # "disconnect") \/ spc = "done"

(* What is in the pipe, in the buffers and in the reply is the line in     *)
(* hand, or what the worker's buffer took of it; a worker past its read    *)
(* left something behind only if the line was long.                        *)
Contents ==
  /\ spc \notin Midway => toWorker = <<>> /\ toServer = <<>>
  /\ toServer # <<>> => toServer = <<Cut[line]>>
  /\ reply # <<>> => reply = <<Cut[line]>>
  /\ \A w \in Workers : client = w =>
       /\ wpc[w] \in {"lock", "read"} => toWorker \in {<<>>, <<line>>}
       /\ wpc[w] \in Asking => toServer = <<>>
       /\ wpc[w] = "write" => buf[w] = Cut[line]
       /\ pipe = "connected" /\ wpc[w] \notin {"lock", "read"} =>
            spc \in Midway /\ (toWorker # <<>> => line \in Long)

(* The inductive invariant. *)
PipeInv == PipeTypeOK /\ LineInHand /\ PipeEnds /\ ServerView /\ MutexHeld
           /\ AskersConnected /\ Contents

-----------------------------------------------------------------------------
(* Sequences *)

(* A line typed or written is added to the lines before it. *)
LEMMA Appended ==
  ASSUME NEW S, NEW s \in Seq(S), NEW e \in S
  PROVE  Append(s, e) \in Seq(S)
  OBVIOUS

(* What is read from a queue is of its kind, and so is the rest. *)
LEMMA HeadAndTail ==
  ASSUME NEW S, NEW s \in Seq(S), s # <<>>
  PROVE  Head(s) \in S /\ Tail(s) \in Seq(S)
  OBVIOUS

(* A queue of one message. *)
LEMMA OneTyped ==
  ASSUME NEW S, NEW e \in S
  PROVE  <<e>> \in Seq(S)
  OBVIOUS

(* One message written to an empty pipe is the next one read. *)
LEMMA OneMessage ==
  ASSUME NEW e
  PROVE  /\ Append(<<>>, e) = <<e>> /\ <<e>> # <<>>
         /\ Head(<<e>>) = e /\ Tail(<<e>>) = <<>>
  OBVIOUS

-----------------------------------------------------------------------------
(* The user and the server *)

(* Typing ahead of the server disturbs nothing but the console's queue. *)
LEMMA TypeKeeps ==
  ASSUME NEW l \in Messages \cup {"exit"}, PipeInv, Type(l)
  PROVE  PipeInv'
  <1> USE DEF PipeInv
  <1>1. PipeTypeOK'
    <2>1. stdin' \in Seq(Messages \cup {"exit"})
      BY Appended DEF PipeTypeOK, Type
    <2>2. typed \in Nat
      BY DEF PipeTypeOK
    <2>3. typed' \in Nat
      BY <2>2 DEF Type
    <2> QED  BY <2>1, <2>3 DEF PipeTypeOK, Type, kernel, server, worker
  <1>2. LineInHand'
    BY DEF LineInHand, Type, server
  <1>3. PipeEnds'
    BY DEF PipeEnds, Connected, Type, kernel, worker
  <1>4. ServerView'
    BY DEF ServerView, Type, server, kernel
  <1>5. MutexHeld'
    BY DEF MutexHeld, Type, worker
  <1>6. AskersConnected'
    BY DEF AskersConnected, Connected, Type, server, kernel, worker
  <1>7. Contents'
    BY DEF Contents, Type, server, kernel, worker
  <1> QED  BY <1>1, <1>2, <1>3, <1>4, <1>5, <1>6, <1>7

(* CreateNamedPipe (app.cc:13-26): workers that came earlier have exited,  *)
(* no one is connected.                                                    *)
LEMMA SrvCreateKeeps ==
  ASSUME PipeInv, SrvCreate
  PROVE  PipeInv'
  <1> USE DEF PipeInv
  <1>1. PipeTypeOK'
    BY DEF PipeTypeOK, PipeState, ServerPC, SrvCreate, user, worker
  <1>2. LineInHand'
    BY DEF LineInHand, Midway, SrvCreate
  <1>3. PipeEnds'
    BY DEF PipeEnds, ServerView, InUse, Connected, SrvCreate
  <1>4. ServerView'
    BY DEF ServerView, Midway, SrvCreate
  <1>5. MutexHeld'
    BY DEF MutexHeld, SrvCreate, worker
  <1>6. AskersConnected'
    BY DEF AskersConnected, ServerView, Connected, SrvCreate, worker
  <1>7. Contents'
    BY PipeAssumption DEF Contents, PipeEnds, ServerView, InUse, SrvCreate
  <1> QED  BY <1>1, <1>2, <1>3, <1>4, <1>5, <1>6, <1>7

(* std::getline (app.cc:30-33) begins the next line with the pipe empty. *)
LEMMA SrvGetLineKeeps ==
  ASSUME PipeInv, SrvGetLine
  PROVE  PipeInv'
  <1> USE DEF PipeInv
  <1>1. PipeTypeOK'
    <2>1. stdin' \in Seq(Messages \cup {"exit"}) /\ line' \in Messages \cup {"exit"}
      BY HeadAndTail DEF PipeTypeOK, SrvGetLine
    <2>2. spc' \in ServerPC /\ reply' \in Seq(Messages)
      BY DEF SrvGetLine, ServerPC
    <2> QED  BY <2>1, <2>2 DEF PipeTypeOK, SrvGetLine, kernel, worker
  <1>2. LineInHand'
    <2>1. line' \in Messages \cup {"exit"}
      BY HeadAndTail DEF PipeTypeOK, SrvGetLine
    <2> QED  BY <2>1 DEF LineInHand, Midway, SrvGetLine
  <1>3. PipeEnds'
    BY DEF PipeEnds, Connected, SrvGetLine, kernel, worker
  <1>4. ServerView'
    BY DEF ServerView, Midway, SrvGetLine, kernel
  <1>5. MutexHeld'
    BY DEF MutexHeld, SrvGetLine, worker
  <1>6. AskersConnected'
    BY DEF AskersConnected, Connected, SrvGetLine, kernel, worker
  <1>7. Contents'
    BY PipeAssumption
       DEF Contents, PipeEnds, InUse, Midway, SrvGetLine, kernel, worker
  <1> QED  BY <1>1, <1>2, <1>3, <1>4, <1>5, <1>6, <1>7

(* ConnectNamedPipe in each state of the instance (app.cc:35-55). *)
LEMMA SrvConnectKeeps ==
  ASSUME PipeInv, SrvConnect
  PROVE  PipeInv'
  <1> USE DEF PipeInv
  <1>1. PipeTypeOK'
    <2>1. pipe' \in PipeState /\ spc' \in ServerPC
      BY DEF PipeTypeOK, ServerView, PipeState, ServerPC, SrvConnect
    <2> QED  BY <2>1 DEF PipeTypeOK, SrvConnect, user, worker
  <1>2. LineInHand'
    BY DEF LineInHand, SrvConnect
  <1>3. PipeEnds'
    BY DEF PipeEnds, InUse, Connected, SrvConnect, worker
  <1>4. ServerView'
    BY DEF PipeTypeOK, ServerView, InUse, Midway, PipeState, SrvConnect
  <1>5. MutexHeld'
    BY DEF MutexHeld, SrvConnect, worker
  <1>6. AskersConnected'
    BY DEF AskersConnected, Connected, SrvConnect, worker
  <1>7. Contents'
    BY DEF Contents, Midway, SrvConnect, worker
  <1> QED  BY <1>1, <1>2, <1>3, <1>4, <1>5, <1>6, <1>7

(* ConnectNamedPipe returns to a waiting server (app.cc:35-36). *)
LEMMA SrvAcceptKeeps ==
  ASSUME PipeInv, SrvAccept
  PROVE  PipeInv'
  <1> USE DEF PipeInv
  <1>1. PipeTypeOK'
    BY DEF PipeTypeOK, ServerPC, SrvAccept, user, kernel, worker
  <1>2. LineInHand'
    BY DEF LineInHand, SrvAccept
  <1>3. PipeEnds'
    BY DEF PipeEnds, Connected, SrvAccept, kernel, worker
  <1>4. ServerView'
    BY DEF ServerView, InUse, SrvAccept, kernel
  <1>5. MutexHeld'
    BY DEF MutexHeld, SrvAccept, worker
  <1>6. AskersConnected'
    BY DEF AskersConnected, Connected, SrvAccept, kernel, worker
  <1>7. Contents'
    BY DEF Contents, Midway, SrvAccept, kernel, worker
  <1> QED  BY <1>1, <1>2, <1>3, <1>4, <1>5, <1>6, <1>7

(* The line goes into the pipe of the worker that is connected             *)
(* (app.cc:37-40).                                                         *)
LEMMA SrvWriteKeeps ==
  ASSUME PipeInv, SrvWrite
  PROVE  PipeInv'
  <1> USE DEF PipeInv
  <1>1. PipeTypeOK'
    <2>1. toWorker' \in Seq(Messages)
      BY Appended DEF PipeTypeOK, LineInHand, SrvWrite
    <2>2. spc' \in ServerPC
      BY DEF SrvWrite, ServerPC
    <2> QED  BY <2>1, <2>2 DEF PipeTypeOK, SrvWrite, user, worker
  <1>2. LineInHand'
    BY DEF LineInHand, SrvWrite
  <1>3. PipeEnds'
    BY DEF PipeEnds, Connected, SrvWrite, worker
  <1>4. ServerView'
    BY DEF ServerView, SrvWrite
  <1>5. MutexHeld'
    BY DEF MutexHeld, SrvWrite, worker
  <1>6. AskersConnected'
    BY DEF AskersConnected, Connected, SrvWrite, worker
  <1>7. Contents'
    BY DEF Contents, Midway, SrvWrite, worker
  <1> QED  BY <1>1, <1>2, <1>3, <1>4, <1>5, <1>6, <1>7

(* An unbuffered write returns (app.cc:37-40). *)
LEMMA SrvFlushKeeps ==
  ASSUME PipeInv, SrvFlush
  PROVE  PipeInv'
  <1> USE DEF PipeInv
  <1>1. PipeTypeOK'
    BY DEF PipeTypeOK, ServerPC, SrvFlush, user, kernel, worker
  <1>2. LineInHand'
    BY DEF LineInHand, Midway, SrvFlush
  <1>3. PipeEnds'
    BY DEF PipeEnds, Connected, SrvFlush, kernel, worker
  <1>4. ServerView'
    BY DEF ServerView, Midway, SrvFlush, kernel
  <1>5. MutexHeld'
    BY DEF MutexHeld, SrvFlush, worker
  <1>6. AskersConnected'
    BY DEF AskersConnected, Connected, SrvFlush, kernel, worker
  <1>7. Contents'
    BY DEF Contents, Midway, SrvFlush, kernel, worker
  <1> QED  BY <1>1, <1>2, <1>3, <1>4, <1>5, <1>6, <1>7

(* What the server reads is the echo of this line (app.cc:42-46). *)
LEMMA SrvReadKeeps ==
  ASSUME PipeInv, SrvRead
  PROVE  PipeInv'
  <1> USE DEF PipeInv
  <1>1. PipeTypeOK'
    <2>1. toServer' \in Seq(Messages)
      BY HeadAndTail DEF PipeTypeOK, SrvRead
    <2>2. reply' \in Seq(Messages)
      <3>1. CASE toServer # <<>> /\ reply' = <<Head(toServer)>>
        <4>1. Head(toServer) \in Messages
          BY <3>1, HeadAndTail DEF PipeTypeOK
        <4> QED  BY <3>1, <4>1
      <3>2. CASE reply' = <<>>
        BY <3>2
      <3> QED  BY <3>1, <3>2 DEF SrvRead
    <2>3. spc' \in ServerPC
      BY DEF SrvRead, ServerPC
    <2> QED  BY <2>1, <2>2, <2>3 DEF PipeTypeOK, SrvRead, user, worker
  <1>2. LineInHand'
    BY DEF LineInHand, Midway, SrvRead
  <1>3. PipeEnds'
    BY DEF PipeEnds, Connected, SrvRead, worker
  <1>4. ServerView'
    BY DEF PipeEnds, ServerView, InUse, SrvRead
  <1>5. MutexHeld'
    BY DEF MutexHeld, SrvRead, worker
  <1>6. AskersConnected'
    BY DEF AskersConnected, Contents, Connected, SrvRead, worker
  <1>7. Contents'
    <2>1. /\ toServer' = <<>>
          /\ reply' # <<>> => reply' = <<Cut[line]>>
      BY OneMessage DEF Contents, SrvRead
    <2> QED  BY <2>1 DEF Contents, Midway, SrvRead, worker
  <1> QED  BY <1>1, <1>2, <1>3, <1>4, <1>5, <1>6, <1>7

(* DisconnectNamedPipe (app.cc:49): no worker that still has to answer is  *)
(* cut off.                                                                *)
LEMMA SrvDisconnectKeeps ==
  ASSUME PipeInv, SrvDisconnect
  PROVE  PipeInv'
  <1> USE DEF PipeInv
  <1>1. PipeTypeOK'
    <2>1. spc' \in ServerPC /\ pipe' \in PipeState
      BY DEF SrvDisconnect, ServerPC, PipeState
    <2>2. toWorker' \in Seq(Messages) /\ toServer' \in Seq(Messages)
      BY DEF SrvDisconnect
    <2> QED  BY <2>1, <2>2 DEF PipeTypeOK, SrvDisconnect, user, worker
  <1>2. LineInHand'
    BY DEF LineInHand, Midway, SrvDisconnect
  <1>3. PipeEnds'
    BY DEF PipeEnds, InUse, Connected, SrvDisconnect
  <1>4. ServerView'
    BY DEF ServerView, Midway, SrvDisconnect
  <1>5. MutexHeld'
    BY DEF MutexHeld, SrvDisconnect, worker
  <1>6. AskersConnected'
    BY DEF AskersConnected, SrvDisconnect, worker
  <1>7. Contents'
    BY PipeAssumption DEF Contents, SrvDisconnect
  <1> QED  BY <1>1, <1>2, <1>3, <1>4, <1>5, <1>6, <1>7

(* The server quits (app.cc:58-60); workers at any position lose the pipe. *)
LEMMA SrvCloseKeeps ==
  ASSUME PipeInv, SrvClose
  PROVE  PipeInv'
  <1> USE DEF PipeInv
  <1>1. PipeTypeOK'
    <2>1. spc' \in ServerPC /\ pipe' \in PipeState
      BY DEF SrvClose, ServerPC, PipeState
    <2>2. toWorker' \in Seq(Messages) /\ toServer' \in Seq(Messages)
      BY DEF SrvClose
    <2> QED  BY <2>1, <2>2 DEF PipeTypeOK, SrvClose, user, worker
  <1>2. LineInHand'
    BY DEF LineInHand, Midway, SrvClose
  <1>3. PipeEnds'
    BY DEF PipeEnds, InUse, Connected, SrvClose
  <1>4. ServerView'
    BY DEF ServerView, Midway, SrvClose
  <1>5. MutexHeld'
    BY DEF MutexHeld, SrvClose, worker
  <1>6. AskersConnected'
    BY DEF AskersConnected, SrvClose
  <1>7. Contents'
    BY PipeAssumption DEF Contents, SrvClose
  <1> QED  BY <1>1, <1>2, <1>3, <1>4, <1>5, <1>6, <1>7

-----------------------------------------------------------------------------
(* The workers *)

(* A worker ends at any position, by itself or killed, with the pipe, the  *)
(* mutex, both or none.                                                    *)
LEMMA EndProcessKeeps ==
  ASSUME NEW w \in Workers, PipeInv, EndProcess(w),
         stdin' \in Seq(Messages \cup {"exit"}), typed' \in Nat, kills' \in Nat
  PROVE  PipeInv'
  <1> USE DEF PipeInv
  <1>1. PipeTypeOK'
    <2>0. toWorker \in Seq(Messages) /\ toServer \in Seq(Messages)
      BY DEF PipeTypeOK
    <2>a. toWorker' \in {<<>>, toWorker} /\ toServer' = toServer
      BY DEF EndProcess, CloseEnd, kernel
    <2>b. <<>> \in Seq(Messages)
      OBVIOUS
    <2>1. toWorker' \in Seq(Messages) /\ toServer' \in Seq(Messages)
      BY <2>0, <2>a, <2>b
    <2>4. pipe' \in PipeState /\ client' \in Workers \cup {NoOne}
      BY DEF PipeTypeOK, EndProcess, CloseEnd, PipeState, kernel
    <2>2. wpc' \in [Workers -> WorkerPC]
      BY DEF PipeTypeOK, EndProcess, Goto, WorkerPC
    <2> QED  BY <2>1, <2>2, <2>4 DEF PipeTypeOK, EndProcess, server
  <1>2. LineInHand'
    BY DEF LineInHand, EndProcess, server
  <1>3. PipeEnds'
    BY DEF PipeTypeOK, PipeEnds, InUse, Connected, EndProcess, Goto, CloseEnd,
           kernel
  <1>4. ServerView'
    BY DEF ServerView, InUse, Connected, EndProcess, CloseEnd, server, kernel
  <1>5. MutexHeld'
    BY PipeAssumption DEF PipeTypeOK, MutexHeld, Holding, EndProcess, Goto
  <1>6. AskersConnected'
    BY DEF PipeTypeOK, AskersConnected, Asking, Connected, EndProcess, Goto,
           CloseEnd, server, kernel
  <1>7. Contents'
    BY DEF PipeTypeOK, Contents, ServerView, AskersConnected, Asking, EndProcess,
           Goto, CloseEnd, server, kernel
  <1> QED  BY <1>1, <1>2, <1>3, <1>4, <1>5, <1>6, <1>7

(* WaitNamedPipe (app.cc:74-78) finds an instance or ends the worker. *)
LEMMA WkWaitKeeps ==
  ASSUME NEW w \in Workers, PipeInv, WkWait(w)
  PROVE  PipeInv'
  <1> USE DEF PipeInv
  <1>1. CASE EndProcess(w) /\ UNCHANGED user
    BY <1>1, EndProcessKeeps DEF PipeTypeOK, user
  <1>2. CASE ~(EndProcess(w) /\ UNCHANGED user)
    <2>1. PipeTypeOK'
      BY <1>2 DEF PipeTypeOK, WorkerPC, WkWait, Goto, user, server, kernel
    <2>2. LineInHand'
      BY <1>2 DEF LineInHand, WkWait, server
    <2>3. PipeEnds'
      BY <1>2 DEF PipeEnds, Connected, WkWait, kernel
    <2>4. ServerView'
      BY <1>2 DEF ServerView, WkWait, server, kernel
    <2>5. MutexHeld'
      BY <1>2 DEF PipeTypeOK, MutexHeld, Holding, WkWait, Goto
    <2>6. AskersConnected'
      BY <1>2
         DEF PipeTypeOK, AskersConnected, ServerView, Asking, Connected, WkWait,
             Goto
    <2>7. Contents'
      BY <1>2
         DEF PipeTypeOK, Contents, PipeEnds, InUse, WkWait, Goto, server, kernel
    <2> QED  BY <2>1, <2>2, <2>3, <2>4, <2>5, <2>6, <2>7
  <1> QED  BY <1>1, <1>2

(* CreateFile (app.cc:81-119): the first worker gets an empty instance, a  *)
(* later one waits again, and without an instance the worker ends.         *)
LEMMA WkOpenKeeps ==
  ASSUME NEW w \in Workers, PipeInv, WkOpen(w)
  PROVE  PipeInv'
  <1> USE DEF PipeInv
  <1>1. CASE EndProcess(w) /\ UNCHANGED user
    BY <1>1, EndProcessKeeps DEF PipeTypeOK, user
  <1>2. CASE /\ wpc[w] = "open" /\ Goto(w, "wait")
             /\ UNCHANGED <<user, server, kernel, buf, mutex>>
    <2>1. PipeTypeOK'
      BY <1>2 DEF PipeTypeOK, WorkerPC, Goto, user, server, kernel
    <2>2. LineInHand'
      BY <1>2 DEF LineInHand, server
    <2>3. PipeEnds'
      BY <1>2 DEF PipeTypeOK, PipeEnds, Asking, Connected, Goto, kernel
    <2>4. ServerView'
      BY <1>2 DEF ServerView, server, kernel
    <2>5. MutexHeld'
      BY <1>2 DEF PipeTypeOK, MutexHeld, Holding, Goto
    <2>6. AskersConnected'
      BY <1>2
         DEF PipeTypeOK, AskersConnected, Asking, Connected, Goto, server, kernel
    <2>7. Contents'
      BY <1>2 DEF PipeTypeOK, Contents, Asking, Goto, server, kernel
    <2> QED  BY <2>1, <2>2, <2>3, <2>4, <2>5, <2>6, <2>7
  <1>3. CASE /\ wpc[w] = "open" /\ pipe = "listening"
             /\ pipe' = "connected" /\ client' = w /\ Goto(w, "lock")
             /\ UNCHANGED <<user, server, toWorker, toServer, buf, mutex>>
    <2>0. /\ wpc' = [wpc EXCEPT ![w] = "lock"] /\ wpc'[w] = "lock"
          /\ client = NoOne /\ toWorker = <<>> /\ toServer = <<>>
          /\ spc \notin Midway \cup {"done"}
      BY <1>3 DEF Goto, PipeTypeOK, PipeEnds, InUse, ServerView
    <2>1. PipeTypeOK'
      BY <1>3, <2>0 DEF PipeTypeOK, PipeState, WorkerPC, user, server
    <2>2. LineInHand'
      BY <1>3 DEF LineInHand, server
    <2>3. PipeEnds'
      BY <1>3, <2>0, PipeAssumption DEF PipeEnds, Connected, InUse, Asking
    <2>4. ServerView'
      BY <1>3 DEF ServerView, InUse, server
    <2>5. MutexHeld'
      BY <1>3, <2>0 DEF MutexHeld, Holding
    <2>6. AskersConnected'
      <3> SUFFICES ASSUME NEW v \in Workers, wpc'[v] \in Asking
                   PROVE  Connected(v)' /\ spc' # "disconnect"
        BY DEF AskersConnected
      <3>1. v = w
        BY <1>3, <2>0 DEF AskersConnected, Connected
      <3> QED  BY <1>3, <2>0, <3>1 DEF Connected, Midway, server
    <2>7. Contents'
      BY <1>3, <2>0 DEF Contents, server
    <2> QED  BY <2>1, <2>2, <2>3, <2>4, <2>5, <2>6, <2>7
  <1> QED  BY <1>1, <1>2, <1>3 DEF WkOpen

(* The mutex, free or abandoned, goes to a connected worker                *)
(* (app.cc:90-94).                                                         *)
LEMMA WkLockKeeps ==
  ASSUME NEW w \in Workers, PipeInv, WkLock(w)
  PROVE  PipeInv'
  <1> USE DEF PipeInv
  <1>1. PipeTypeOK'
    BY DEF PipeTypeOK, WorkerPC, WkLock, Goto, user, server, kernel
  <1>2. LineInHand'
    BY DEF LineInHand, WkLock, server
  <1>3. PipeEnds'
    BY DEF PipeTypeOK, PipeEnds, Asking, Connected, WkLock, Goto, kernel
  <1>4. ServerView'
    BY DEF ServerView, WkLock, server, kernel
  <1>5. MutexHeld'
    BY PipeAssumption DEF PipeTypeOK, MutexHeld, Holding, WkLock, Goto
  <1>6. AskersConnected'
    BY DEF PipeTypeOK, AskersConnected, Asking, Connected, WkLock, Goto, server,
           kernel
  <1>7. Contents'
    BY DEF Contents, Asking, WkLock, Goto, server, kernel
  <1> QED  BY <1>1, <1>2, <1>3, <1>4, <1>5, <1>6, <1>7

(* The worker reads the line in hand, as far as its buffer goes, or ends   *)
(* with the mutex (app.cc:95-106).                                         *)
LEMMA WkReadKeeps ==
  ASSUME NEW w \in Workers, PipeInv, WkRead(w)
  PROVE  PipeInv'
  <1> USE DEF PipeInv
  <1>1. CASE EndProcess(w) /\ UNCHANGED user
    BY <1>1, EndProcessKeeps DEF PipeTypeOK, user
  <1>2. CASE ~(EndProcess(w) /\ UNCHANGED user)
    <2>0. /\ Connected(w) /\ toWorker # <<>> /\ wpc[w] = "read"
          /\ buf' = [buf EXCEPT ![w] = Cut[Head(toWorker)]]
          /\ wpc' = [wpc EXCEPT ![w] = "write"]
          /\ toWorker' = IF Head(toWorker) \in Long THEN <<Rest>> ELSE Tail(toWorker)
          /\ UNCHANGED <<user, server, pipe, client, toServer, mutex>>
      BY <1>2 DEF WkRead, Goto
    <2>a. toWorker = <<line>> /\ toServer = <<>> /\ spc \in Midway /\ line \in Messages
      BY <2>0 DEF Contents, Connected, LineInHand, Asking
    <2>b. /\ buf' = [buf EXCEPT ![w] = Cut[line]]
          /\ toWorker' = IF line \in Long THEN <<Rest>> ELSE <<>>
          /\ toWorker' # <<>> => line \in Long
      BY <2>0, <2>a
    <2>1. PipeTypeOK'
      <3>1. <<Rest>> \in Seq(Messages) /\ Cut[line] \in Messages
        BY <2>a, PipeAssumption, OneTyped
      <3>2. toWorker' \in Seq(Messages)
        BY <2>b, <3>1
      <3> QED  BY <2>0, <2>b, <3>1, <3>2 DEF PipeTypeOK, WorkerPC, user, server
    <2>2. LineInHand'
      BY <2>0 DEF LineInHand, server
    <2>3. PipeEnds'
      BY <2>0 DEF PipeTypeOK, PipeEnds, Connected, Asking
    <2>4. ServerView'
      BY <2>0 DEF ServerView, server
    <2>5. MutexHeld'
      BY <2>0 DEF MutexHeld, Holding
    <2>6. AskersConnected'
      BY <2>0 DEF AskersConnected, Asking, Connected, server
    <2>7. Contents'
      BY <2>0, <2>a, <2>b DEF PipeTypeOK, Contents, Connected, server
    <2> QED  BY <2>1, <2>2, <2>3, <2>4, <2>5, <2>6, <2>7
  <1> QED  BY <1>1, <1>2

(* The worker echoes what it read (app.cc:98-101), or fails because the    *)
(* server has quit.                                                        *)
LEMMA WkWriteKeeps ==
  ASSUME NEW w \in Workers, PipeInv, WkWrite(w)
  PROVE  PipeInv'
  <1>a. ASSUME Connected(w) PROVE PipeTypeOK' /\ Contents'
    <2>0. /\ client = w /\ toServer = <<>> /\ spc \in Midway /\ line \in Messages
          /\ wpc[w] = "write" /\ buf[w] = Cut[line]
          /\ wpc' = [wpc EXCEPT ![w] = IF Buffered THEN "release" ELSE "flush"]
          /\ toServer' = <<Cut[line]>>
          /\ UNCHANGED <<user, server, pipe, client, toWorker, buf, mutex>>
      <3> USE DEF PipeInv
      <3> QED  BY <1>a DEF WkWrite, Contents, Connected, LineInHand, Goto, Asking
    <2>1. PipeTypeOK'
      <3>1. toServer' \in Seq(Messages)
        BY <2>0, PipeAssumption, OneTyped
      <3> QED  BY <2>0, <3>1 DEF PipeInv, PipeTypeOK, WorkerPC, user, server
    <2>2. Contents'
      <3>1. /\ toWorker # <<>> => line \in Long
            /\ wpc'[w] \in {"release", "flush"}
        BY <1>a, <2>0 DEF PipeInv, PipeTypeOK, Contents, Connected
      <3>2. reply # <<>> => reply = <<Cut[line]>>
        BY DEF PipeInv, Contents
      <3>3. /\ spc' \in Midway /\ line' = line /\ reply' = reply
            /\ client' = w /\ toWorker' = toWorker
        BY <2>0 DEF server
      <3>4. /\ wpc'[w] \notin {"lock", "read"} \cup Asking
            /\ toWorker' # <<>> => line' \in Long
        BY <3>1, <3>3 DEF Asking
      <3> QED  BY <2>0, <3>2, <3>3, <3>4 DEF Contents
    <2> QED  BY <2>1, <2>2
  <1>b. ASSUME ~Connected(w) PROVE PipeTypeOK' /\ Contents'
    <2>1. PipeTypeOK'
      BY <1>b DEF PipeInv, PipeTypeOK, WkWrite, Goto, WorkerPC, user, server
    <2>2. /\ wpc' = [wpc EXCEPT ![w] = "release"] /\ toServer' = toServer /\ client = NoOne
      BY <1>b
         DEF PipeInv, WkWrite, Goto, AskersConnected, Asking, ServerView, PipeEnds,
             InUse
    <2>3. spc' \notin Midway => toWorker' = <<>> /\ toServer' = <<>>
      BY <2>2 DEF PipeInv, WkWrite, Contents, server
    <2>4. /\ toServer' # <<>> => toServer' = <<Cut[line']>>
          /\ reply' # <<>> => reply' = <<Cut[line']>>
      BY <2>2 DEF PipeInv, WkWrite, Contents, server
    <2>5. client' \notin Workers
      BY <2>2, PipeAssumption DEF WkWrite
    <2>6. Contents'
      BY <2>3, <2>4, <2>5 DEF Contents
    <2> QED  BY <2>1, <2>6
  <1>1. PipeTypeOK'
    BY <1>a, <1>b
  <1>2. LineInHand'
    BY DEF PipeInv, LineInHand, WkWrite, server
  <1>3. PipeEnds'
    BY PipeAssumption DEF PipeInv, PipeTypeOK, PipeEnds, Connected, WkWrite, Goto
  <1>4. ServerView'
    BY DEF PipeInv, ServerView, WkWrite, server
  <1>5. MutexHeld'
    BY DEF PipeInv, PipeTypeOK, MutexHeld, Holding, WkWrite, Goto
  <1>6. AskersConnected'
    BY DEF PipeInv, PipeTypeOK, AskersConnected, Asking, Connected, WkWrite, Goto,
           server
  <1>7. Contents'
    BY <1>a, <1>b
  <1> QED  BY <1>1, <1>2, <1>3, <1>4, <1>5, <1>6, <1>7 DEF PipeInv

(* The worker's unbuffered write returns (app.cc:98-101). *)
LEMMA WkFlushKeeps ==
  ASSUME NEW w \in Workers, PipeInv, WkFlush(w)
  PROVE  PipeInv'
  <1> USE DEF PipeInv
  <1>1. PipeTypeOK'
    BY DEF PipeTypeOK, WorkerPC, WkFlush, Goto, user, server, kernel
  <1>2. LineInHand'
    BY DEF LineInHand, WkFlush, server
  <1>3. PipeEnds'
    BY DEF PipeTypeOK, PipeEnds, Connected, WkFlush, Goto, kernel
  <1>4. ServerView'
    BY DEF ServerView, WkFlush, server, kernel
  <1>5. MutexHeld'
    BY DEF PipeTypeOK, MutexHeld, Holding, WkFlush, Goto
  <1>6. AskersConnected'
    BY DEF PipeTypeOK, AskersConnected, Asking, Connected, WkFlush, Goto, server,
           kernel
  <1>7. Contents'
    BY DEF Contents, Asking, WkFlush, Goto, server, kernel
  <1> QED  BY <1>1, <1>2, <1>3, <1>4, <1>5, <1>6, <1>7

(* ReleaseMutex (app.cc:108). *)
LEMMA WkReleaseKeeps ==
  ASSUME NEW w \in Workers, PipeInv, WkRelease(w)
  PROVE  PipeInv'
  <1> USE DEF PipeInv
  <1>1. PipeTypeOK'
    BY DEF PipeTypeOK, WorkerPC, WkRelease, Goto, user, server, kernel
  <1>2. LineInHand'
    BY DEF LineInHand, WkRelease, server
  <1>3. PipeEnds'
    BY DEF PipeTypeOK, PipeEnds, Connected, WkRelease, Goto, kernel
  <1>4. ServerView'
    BY DEF ServerView, WkRelease, server, kernel
  <1>5. MutexHeld'
    BY PipeAssumption DEF PipeTypeOK, MutexHeld, Holding, WkRelease, Goto
  <1>6. AskersConnected'
    BY DEF PipeTypeOK, AskersConnected, Asking, Connected, WkRelease, Goto, server,
           kernel
  <1>7. Contents'
    BY DEF Contents, Asking, WkRelease, Goto, server, kernel
  <1> QED  BY <1>1, <1>2, <1>3, <1>4, <1>5, <1>6, <1>7

(* CloseHandle (app.cc:109): the instance is left to the server, what the  *)
(* worker wrote with it.                                                   *)
LEMMA WkCloseKeeps ==
  ASSUME NEW w \in Workers, PipeInv, WkClose(w)
  PROVE  PipeInv'
  <1> USE DEF PipeInv
  <1>1. PipeTypeOK'
    <2>0. toWorker \in Seq(Messages) /\ toServer \in Seq(Messages)
      BY DEF PipeTypeOK
    <2>a. toWorker' \in {<<>>, toWorker} /\ toServer' = toServer
      BY DEF WkClose, CloseEnd, kernel
    <2>b. <<>> \in Seq(Messages)
      OBVIOUS
    <2>1. toWorker' \in Seq(Messages) /\ toServer' \in Seq(Messages)
      BY <2>0, <2>a, <2>b
    <2>4. pipe' \in PipeState /\ client' \in Workers \cup {NoOne}
      BY DEF PipeTypeOK, WkClose, CloseEnd, PipeState, kernel
    <2>2. wpc' \in [Workers -> WorkerPC]
      BY DEF PipeTypeOK, WkClose, Goto, WorkerPC
    <2> QED  BY <2>1, <2>2, <2>4 DEF PipeTypeOK, WkClose, server, user
  <1>2. LineInHand'
    BY DEF LineInHand, WkClose, server
  <1>3. PipeEnds'
    BY DEF PipeTypeOK, PipeEnds, InUse, Connected, WkClose, Goto, CloseEnd, kernel
  <1>4. ServerView'
    BY DEF ServerView, InUse, Connected, WkClose, CloseEnd, server, kernel
  <1>5. MutexHeld'
    BY DEF PipeTypeOK, MutexHeld, Holding, WkClose, Goto
  <1>6. AskersConnected'
    BY DEF PipeTypeOK, AskersConnected, Asking, Connected, WkClose, Goto, CloseEnd,
           server, kernel
  <1>7. Contents'
    BY DEF PipeTypeOK, Contents, Asking, WkClose, Goto, CloseEnd, server, kernel
  <1> QED  BY <1>1, <1>2, <1>3, <1>4, <1>5, <1>6, <1>7

(* A worker's console window is closed: the process ends wherever it is. *)
LEMMA KillKeeps ==
  ASSUME NEW w \in Workers, PipeInv, Kill(w)
  PROVE  PipeInv'
  <1>1. kills \in Nat
    BY DEF PipeInv, PipeTypeOK
  <1>2. kills' \in Nat
    BY <1>1 DEF Kill
  <1> QED  BY <1>2, EndProcessKeeps DEF Kill, PipeInv, PipeTypeOK

-----------------------------------------------------------------------------
(* The specification *)

(* Every step keeps the invariant. *)
LEMMA PipeStepKeeps == PipeInv /\ [Next]_vars => PipeInv'
  <1> SUFFICES ASSUME PipeInv, [Next]_vars PROVE PipeInv'
    OBVIOUS
  <1>1. CASE \E l \in Messages \cup {"exit"} : Type(l)
    BY <1>1, TypeKeeps
  <1>2. CASE Server
    BY <1>2, SrvCreateKeeps, SrvGetLineKeeps, SrvConnectKeeps, SrvAcceptKeeps,
       SrvWriteKeeps, SrvFlushKeeps, SrvReadKeeps, SrvDisconnectKeeps, SrvCloseKeeps
       DEF Server
  <1>3. CASE \E w \in Workers : Worker(w)
    BY <1>3, WkWaitKeeps, WkOpenKeeps, WkLockKeeps, WkReadKeeps, WkWriteKeeps,
       WkFlushKeeps, WkReleaseKeeps, WkCloseKeeps
       DEF Worker
  <1>4. CASE \E w \in Workers : Kill(w)
    BY <1>4, KillKeeps
  <1>5. CASE UNCHANGED vars
    BY <1>5
       DEF vars, PipeInv, PipeTypeOK, LineInHand, PipeEnds, ServerView, MutexHeld,
           AskersConnected, Contents, Connected
  <1> QED  BY <1>1, <1>2, <1>3, <1>4, <1>5 DEF Next

(* It holds when main() has started the workers and no pipe exists yet     *)
(* (app.cc:126-144).                                                       *)
LEMMA PipeInit == Init => PipeInv
  <1> SUFFICES ASSUME Init PROVE PipeInv
    OBVIOUS
  <1>1. PipeTypeOK
    <2>1. /\ spc \in ServerPC /\ pipe \in PipeState /\ wpc \in [Workers -> WorkerPC]
          /\ buf \in [Workers -> Messages \cup {""}]
      BY DEF Init, ServerPC, PipeState, WorkerPC
    <2>2. <<>> \in Seq(Messages) /\ <<>> \in Seq(Messages \cup {"exit"})
      OBVIOUS
    <2> QED  BY <2>1, <2>2 DEF Init, PipeTypeOK
  <1>2. LineInHand /\ ServerView
    BY DEF Init, LineInHand, ServerView, Midway
  <1>3. PipeEnds
    BY DEF Init, PipeEnds, InUse, Connected
  <1>4. MutexHeld /\ AskersConnected
    BY PipeAssumption DEF Init, MutexHeld, AskersConnected, Holding, Asking
  <1>5. Contents
    BY DEF Init, Contents
  <1> QED  BY <1>1, <1>2, <1>3, <1>4, <1>5 DEF PipeInv

(* In every reachable state the positions of server and workers, the pipe, *)
(* the mutex and the buffers fit together as PipeInv says.                 *)
THEOREM PipeInvariant == Spec => []PipeInv
  BY PipeInit, PipeStepKeeps, PTL DEF Spec

(* Every variable keeps its type: no process leaves its program, and only  *)
(* messages are ever in the pipe or a buffer.                              *)
THEOREM PipeTypeCorrect == Spec => []PipeTypeOK
  <1>1. PipeInv => PipeTypeOK
    BY DEF PipeInv
  <1> QED  BY <1>1, PipeInvariant, PTL

(* The mutex and the pipe never close a cycle: while one worker has the    *)
(* pipe, another that owns the mutex has had its answer taken and is about *)
(* to release it (app.cc:90-109).                                          *)
THEOREM HolderAlwaysLeaving == Spec => []HolderIsLeaving
  <1>1. PipeInv => HolderIsLeaving
    BY PipeAssumption
       DEF PipeInv, HolderIsLeaving, MutexHeld, Holding, AskersConnected, Asking,
           Connected, PipeEnds, InUse, ServerView
  <1> QED  BY <1>1, PipeInvariant, PTL

(* What the server prints after a line (app.cc:42-48) is what the worker's *)
(* buffer took of that line, whichever worker answered and whoever died    *)
(* before.                                                                 *)
THEOREM EchoAlwaysOfThisLine == Spec => []EchoIsOfThisLine
  <1>1. PipeInv => EchoIsOfThisLine
    <2> SUFFICES ASSUME PipeInv, NEW i \in DOMAIN reply PROVE reply[i] = Cut[line]
      BY DEF EchoIsOfThisLine
    <2>1. reply # <<>> => reply = <<Cut[line]>>
      BY DEF PipeInv, Contents
    <2>2. CASE reply = <<Cut[line]>>
      BY <2>2
    <2>3. CASE reply = <<>>
      BY <2>3
    <2> QED  BY <2>1
  <1> QED  BY <1>1, PipeInvariant, PTL

(* Both ends wait in WriteFile for each other (app.cc:37, 98) only over a  *)
(* line that is longer than the worker's buffer.                           *)
THEOREM CrossedOnlyByLongLine == Spec => []CrossedByLongLine
  <1>1. PipeInv => CrossedByLongLine
    BY DEF PipeInv, CrossedByLongLine, Crossed, Contents, Connected
  <1> QED  BY <1>1, PipeInvariant, PTL

-----------------------------------------------------------------------------
(* An instance that stays unusable *)

(* No step of anyone resets an instance whose client left before the       *)
(* server accepted it; the server can only quit.                           *)
LEMMA WedgeStays ==
  ASSUME [Next]_vars, Wedged \/ spc = "done"
  PROVE  Wedged' \/ spc' = "done"
  <1>1. CASE Server
    BY <1>1
       DEF Wedged, Server, SrvCreate, SrvGetLine, SrvConnect, SrvAccept, SrvWrite,
           SrvFlush, SrvRead, SrvDisconnect, SrvClose, kernel
  <1>2. ASSUME NEW w \in Workers, Worker(w)
        PROVE  spc' = spc /\ (pipe = "closing" => pipe' = "closing")
    BY <1>2
       DEF Worker, WkWait, WkOpen, WkLock, WkRead, WkWrite, WkFlush, WkRelease,
           WkClose, EndProcess, CloseEnd, server, kernel
  <1>3. ASSUME NEW w \in Workers, Kill(w)
        PROVE  spc' = spc /\ (pipe = "closing" => pipe' = "closing")
    BY <1>3 DEF Kill, EndProcess, CloseEnd, server, kernel
  <1>4. ASSUME NEW l \in Messages \cup {"exit"}, Type(l)
        PROVE  spc' = spc /\ pipe' = pipe
    BY <1>4 DEF Type, server, kernel
  <1>5. CASE UNCHANGED vars
    BY <1>5 DEF vars, Wedged
  <1> QED  BY <1>1, <1>2, <1>3, <1>4, <1>5 DEF Next, Wedged

(* Once a client has come and gone unaccepted, ConnectNamedPipe fails for  *)
(* every further line until the server quits (app.cc:50-54).               *)
THEOREM WedgedForever == Spec => WedgeIsForever
  <1>1. [Next]_vars /\ (Wedged \/ spc = "done") => (Wedged \/ spc = "done")'
    BY WedgeStays
  <1> QED  BY <1>1, PTL DEF Spec, WedgeIsForever
=============================================================================
