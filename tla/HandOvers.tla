----------------------------- MODULE HandOvers -----------------------------
(***************************************************************************)
(* The two places where threads hand data to each other: the broadcaster   *)
(* passes robot states to its publish thread through a triple buffer       *)
(* without a lock (StateBroadcaster), and the threads that share a TCP     *)
(* connection of libfranka leave each other's responses in a map, with a   *)
(* mutex that does not cover all of it (TcpResponses).  The two belong to  *)
(* different processes: each behaviour is one of them, chosen at the start.*)
(***************************************************************************)
EXTENDS StateBroadcaster

CONSTANTS Callers, Pollers, Body, Breaks, None

ASSUME ResponsesAssumption ==
  /\ Pollers \subseteq Callers
  /\ Body \in Nat \ {0}
  /\ Breaks \in BOOLEAN
  /\ None \notin Callers /\ None \notin Nat /\ None \notin [id : Nat, left : Nat]

VARIABLES
  part,  \* the one that runs; the other stays as it began
  phase, id, answer, lock, commandId, pending, received, open, sending, stream,
  broken, torn

Tcp == INSTANCE TcpResponses

tcpVars == <<phase, id, answer, lock, commandId, pending, received, open, sending,
             stream, broken, torn>>
allVars == <<part, vars, tcpVars>>

HandOverInit == part \in {"broadcaster", "tcp"} /\ Init /\ Tcp!Init

BroadcasterDoes(step) == part = "broadcaster" /\ step /\ UNCHANGED <<part, tcpVars>>

TcpDoes(step) == part = "tcp" /\ step /\ UNCHANGED <<part, vars>>

HandOverNext == BroadcasterDoes(Next) \/ TcpDoes(Tcp!Next)

(* The fairness of the two modules.                                        *)
HandOverSpec ==
  /\ HandOverInit /\ [][HandOverNext]_allVars
  /\ WF_allVars(BroadcasterDoes(Joined)) /\ WF_allVars(BroadcasterDoes(UpdateSteps))
  /\ WF_allVars(BroadcasterDoes(RunnerSteps))
  /\ SF_allVars(BroadcasterDoes(CommitSwap)) /\ SF_allVars(BroadcasterDoes(FetchSwap))
  /\ \A c \in Callers :
       WF_allVars(TcpDoes(Tcp!Waits(c))) /\ SF_allVars(TcpDoes(Tcp!Tries(c)))
  /\ WF_allVars(TcpDoes(Tcp!Server))

---------------------------------------------------------------------------
(* Whoever read it, and in however many pieces it came, a thread gets the  *)
(* response to its own request; until then the response is somewhere, and  *)
(* no other thread has thrown it away (tcpReadFromBuffer).                 *)
OwnResponse == Tcp!OwnResponse /\ Tcp!NoneLost

(* Every request is answered, or its thread told that the connection broke,*)
(* although only the thread that got the mutex reads the socket            *)
(* (tcpBlockingReceiveResponse).                                           *)
EveryoneAnswered == Tcp!EveryoneAnswered

=============================================================================
