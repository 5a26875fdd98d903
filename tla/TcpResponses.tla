---------------------------- MODULE TcpResponses ----------------------------
(***************************************************************************)
(* The TCP half of libfranka's Network: threads send requests over one     *)
(* connection and wait for the responses, which may come in any order and  *)
(* in pieces.  Whichever thread holds tcp_mutex_ reads what has arrived,   *)
(* for all of them: complete responses are kept in received_responses_     *)
(* until the thread that waits for their command ID takes them.            *)
(*                                                                         *)
(* A thread in tcpBlockingReceiveResponse() takes its response after it    *)
(* has unlocked the mutex.  What two threads in the map at once do to it   *)
(* is undefined: torn says that it happened, and the model makes no claim  *)
(* about what follows.  The server is external.                            *)
(***************************************************************************)
EXTENDS Naturals, Sequences, FiniteSets, FiniteSetsExt

CONSTANTS
  Callers,   \* threads, each with one command
  Pollers,   \* those that use tcpReceiveResponse(): the control loop
  Body,      \* the pieces in which a response arrives after its header
  Breaks,    \* the connection may be interrupted
  None       \* no response, no thread

VARIABLES
  phase,      \* where each thread stands
  id,         \* the command ID of each thread's request
  answer,     \* the response each thread has taken: the request it answers
  lock,       \* tcp_mutex_: the thread that holds it in the blocking loop
  commandId,  \* command_id_
  pending,    \* pending_response_, .._offset_ and pending_command_id_
  received,   \* received_responses_, as pairs of key and content
  open,       \* the requests the server has not answered
  sending,    \* the response it sends, and how many pieces are left
  stream,     \* the pieces that have arrived and were not read
  broken,     \* the socket reports an error
  torn        \* two threads were in received_responses_ at once

netVars == <<lock, commandId, pending, received>>
serverVars == <<open, sending, stream, broken>>
vars == <<phase, id, answer, netVars, serverVars, torn>>

Init ==
  /\ phase = [c \in Callers |-> "new"]
  /\ id = [c \in Callers |-> None]
  /\ answer = [c \in Callers |-> None]
  /\ lock = None /\ commandId = 0
  /\ pending = None /\ received = {}
  /\ open = {} /\ sending = None /\ stream = <<>>
  /\ broken = FALSE /\ torn = FALSE

---------------------------------------------------------------------------
(* tcpReadFromBuffer()                                                     *)

(* emplace() does not replace a response that has the same key.            *)
Emplace(key, content) ==
  IF \E e \in received : e.key = key THEN received
  ELSE received \cup {[key |-> key, content |-> content]}

(* A header is read unless part of a response has been, and then what has  *)
(* arrived of the body, but no more.                                       *)
AfterRead ==
  IF stream = <<>> THEN [stream |-> stream, pending |-> pending, received |-> received]
  ELSE LET p == IF pending = None THEN [id |-> Head(stream), left |-> Body] ELSE pending
           pieces == IF pending = None THEN Tail(stream) ELSE stream
           n == Min({p.left, Len(pieces)})
       IN  [stream |-> SubSeq(pieces, n + 1, Len(pieces)),
            pending |-> IF n = p.left THEN None ELSE [id |-> p.id, left |-> p.left - n],
            received |-> IF n = p.left THEN Emplace(p.id, pieces[n]) ELSE received]

---------------------------------------------------------------------------
(* The callers                                                             *)

Taking == {c \in Callers : phase[c] = "taking"}

(* tcpSendRequest()                                                        *)
Send(c) ==
  /\ phase[c] = "new"
  /\ lock = None
  /\ id' = [id EXCEPT ![c] = commandId]
  /\ commandId' = commandId + 1
  /\ open' = open \cup {commandId}
  /\ phase' = [phase EXCEPT ![c] = "waiting"]
  /\ UNCHANGED <<answer, lock, pending, received, sending, stream, broken, torn>>

(* tcpBlockingReceiveResponse(): one turn of its loop.                     *)
Lock(c) ==
  /\ c \notin Pollers
  /\ phase[c] = "waiting"
  /\ lock = None
  /\ lock' = c
  /\ phase' = [phase EXCEPT ![c] = "reading"]
  /\ UNCHANGED <<id, answer, commandId, pending, received, serverVars, torn>>

(* Reads, looks for the response, and unlocks.                             *)
ReadAndFind(c) ==
  /\ phase[c] = "reading"
  /\ ~broken
  /\ stream' = AfterRead.stream
  /\ pending' = AfterRead.pending
  /\ received' = AfterRead.received
  /\ phase' = [phase EXCEPT ![c] =
       IF \E e \in received' : e.key = id[c] THEN "taking" ELSE "waiting"]
  /\ lock' = None
  /\ torn' = (torn \/ Taking # {})
  /\ UNCHANGED <<id, answer, commandId, open, sending, broken>>

(* Mutant: the mutex stays locked when an exception is thrown.             *)
ReadThrowsLocked(c) ==
  /\ phase[c] = "reading"
  /\ broken
  /\ phase' = [phase EXCEPT ![c] = "failed"]
  /\ UNCHANGED <<id, answer, netVars, serverVars, torn>>

(* A NetworkException; the mutex is unlocked on the way out.               *)
ReadThrows(c) ==
  /\ phase[c] = "reading"
  /\ broken
  /\ phase' = [phase EXCEPT ![c] = "failed"]
  /\ lock' = None
  /\ UNCHANGED <<id, answer, commandId, pending, received, serverVars, torn>>

(* Mutant: the response taken is any that has been received.               *)
TakeAny(c) ==
  /\ phase[c] = "taking"
  /\ \E e \in received :
       /\ answer' = [answer EXCEPT ![c] = e.content]
       /\ received' = received \ {e}
  /\ phase' = [phase EXCEPT ![c] = "done"]
  /\ torn' = (torn \/ Cardinality(Taking) > 1)
  /\ UNCHANGED <<id, lock, commandId, pending, serverVars>>

(* Without the mutex: the response is copied, and its entry erased.        *)
Take(c) ==
  /\ phase[c] = "taking"
  /\ \E e \in received :
       /\ e.key = id[c]
       /\ answer' = [answer EXCEPT ![c] = e.content]
       /\ received' = received \ {e}
  /\ phase' = [phase EXCEPT ![c] = "done"]
  /\ torn' = (torn \/ Cardinality(Taking) > 1)
  /\ UNCHANGED <<id, lock, commandId, pending, serverVars>>

(* tcpReceiveResponse(), if it gets the mutex: it reads, and takes the     *)
(* response if it is there.                                                *)
Poll(c) ==
  /\ c \in Pollers
  /\ phase[c] = "waiting"
  /\ lock = None
  /\ ~broken
  /\ stream' = AfterRead.stream
  /\ pending' = AfterRead.pending
  /\ IF \E e \in AfterRead.received : e.key = id[c]
     THEN \E e \in AfterRead.received :
            /\ e.key = id[c]
            /\ answer' = [answer EXCEPT ![c] = e.content]
            /\ received' = AfterRead.received \ {e}
            /\ phase' = [phase EXCEPT ![c] = "done"]
     ELSE received' = AfterRead.received /\ UNCHANGED <<answer, phase>>
  /\ torn' = (torn \/ Taking # {})
  /\ UNCHANGED <<id, lock, commandId, open, sending, broken>>

PollThrows(c) ==
  /\ c \in Pollers
  /\ phase[c] = "waiting"
  /\ lock = None
  /\ broken
  /\ phase' = [phase EXCEPT ![c] = "failed"]
  /\ UNCHANGED <<id, answer, netVars, serverVars, torn>>

---------------------------------------------------------------------------
(* The server and the connection                                           *)

Answer(i) ==
  /\ sending = None
  /\ i \in open
  /\ open' = open \ {i}
  /\ stream' = Append(stream, i)
  /\ sending' = [id |-> i, left |-> Body]
  /\ UNCHANGED <<phase, id, answer, netVars, broken, torn>>

Deliver ==
  /\ sending # None
  /\ stream' = Append(stream, sending.id)
  /\ sending' = IF sending.left = 1 THEN None
                ELSE [id |-> sending.id, left |-> sending.left - 1]
  /\ UNCHANGED <<phase, id, answer, netVars, open, broken, torn>>

Break ==
  /\ Breaks
  /\ ~broken
  /\ broken' = TRUE
  /\ UNCHANGED <<phase, id, answer, netVars, open, sending, stream, torn>>

---------------------------------------------------------------------------
Waits(c) == ReadAndFind(c) \/ ReadThrows(c) \/ Take(c)
Tries(c) == Send(c) \/ Lock(c) \/ Poll(c) \/ PollThrows(c)

Server == (\E i \in open : Answer(i)) \/ Deliver

Next == (\E c \in Callers : Waits(c) \/ Tries(c)) \/ Server \/ Break

Spec == Init /\ [][Next]_vars

(* Every thread runs and gets the mutex now and then; the server answers.  *)
FairSpec ==
  /\ Spec
  /\ \A c \in Callers : WF_vars(Waits(c)) /\ SF_vars(Tries(c))
  /\ WF_vars(Server)

---------------------------------------------------------------------------
Ids == 0 .. Cardinality(Callers)
Pieces == [id : Ids, left : 1 .. Body]

TypeOK ==
  /\ phase \in [Callers -> {"new", "waiting", "reading", "taking", "done", "failed"}]
  /\ id \in [Callers -> Ids \cup {None}] /\ answer \in [Callers -> Ids \cup {None}]
  /\ lock \in Callers \cup {None} /\ commandId \in Ids
  /\ pending \in Pieces \cup {None}
  /\ received \subseteq [key : Ids, content : Ids]
  /\ open \subseteq Ids
  /\ sending \in Pieces \cup {None}
  /\ stream \in Seq(Ids)
  /\ broken \in BOOLEAN /\ torn \in BOOLEAN

(* Whoever read them, and in however many pieces they came, a thread gets  *)
(* the response to its own request.                                        *)
OwnResponse ==
  ~torn => \A c \in Callers : phase[c] = "done" => answer[c] = id[c]

(* While a thread waits, the response it waits for is somewhere: asked for,*)
(* on its way, partly read, or kept.                                       *)
NoneLost ==
  ~torn =>
    \A c \in Callers : phase[c] \in {"waiting", "reading", "taking"} =>
      \/ id[c] \in open
      \/ sending # None /\ sending.id = id[c]
      \/ \E n \in 1 .. Len(stream) : stream[n] = id[c]
      \/ pending # None /\ pending.id = id[c]
      \/ \E e \in received : e.key = id[c]

(* Every request is answered, or its thread told that the connection broke.*)
EveryoneAnswered ==
  \A c \in Callers : phase[c] = "waiting" ~> phase[c] \in {"done", "failed"}

=============================================================================
