------------------------------ MODULE MsgQueue ------------------------------
(***************************************************************************)
(* The message queue of src/apue/11.6.6cond.c: enqueue_msg pushes on workq *)
(* and signals after it has unlocked; process_msg waits in a loop while    *)
(* the queue is empty.  pthread condition variables are external: a wait   *)
(* gives the mutex up and sleeps in one step, a signal wakes one sleeper   *)
(* if there is one, and a sleeper may also wake by itself.                 *)
(***************************************************************************)
EXTENDS Naturals, FiniteSets

CONSTANTS Consumer, Producer, Msg, NULL

VARIABLES workq, m_next, qlock,
          waiting,   \* threads asleep on qready
          pc, mp,
          sent, done \* messages passed to enqueue_msg; taken by process_msg
vars == <<workq, m_next, qlock, waiting, pc, mp, sent, done>>

Init ==
  /\ workq = NULL /\ m_next = [m \in Msg |-> NULL] /\ qlock = NULL
  /\ waiting = {}
  /\ pc = [t \in Consumer \cup Producer |-> IF t \in Consumer THEN "lock" ELSE "idle"]
  /\ mp = [t \in Consumer \cup Producer |-> NULL]
  /\ sent = {} /\ done = {}

Flow(t, from, to) == pc[t] = from /\ pc' = [pc EXCEPT ![t] = to]
Lock(t) == qlock = NULL /\ qlock' = t
Unlock == qlock' = NULL

-----------------------------------------------------------------------------
(* process_msg.                                                            *)

\* The mutex is taken at the top of the loop and when a wait ends.
Acquire(t) ==
  /\ Flow(t, "lock", "test")
  /\ Lock(t)
  /\ UNCHANGED <<workq, m_next, waiting, mp, sent, done>>

\* The mutant that tests the queue before it takes the mutex.
WaitStale(t) ==
  /\ Flow(t, "test", "sleep")
  /\ Unlock
  /\ waiting' = waiting \cup {t}
  /\ UNCHANGED <<workq, m_next, mp, sent, done>>

Wait(t) ==
  /\ workq = NULL
  /\ Flow(t, "test", "sleep")
  /\ Unlock
  /\ waiting' = waiting \cup {t}
  /\ UNCHANGED <<workq, m_next, mp, sent, done>>

\* The mutant that keeps the message on the queue.
TakeCopy(t) ==
  /\ workq # NULL
  /\ Flow(t, "test", "unlock")
  /\ mp' = [mp EXCEPT ![t] = workq]
  /\ done' = done \cup {workq}
  /\ UNCHANGED <<workq, m_next, qlock, waiting, sent>>

Take(t) ==
  /\ workq # NULL
  /\ Flow(t, "test", "unlock")
  /\ mp' = [mp EXCEPT ![t] = workq]
  /\ workq' = m_next[workq]
  /\ done' = done \cup {workq}
  /\ UNCHANGED <<m_next, qlock, waiting, sent>>

\* Unlock; the message is processed before the loop starts over.
Process(t) ==
  /\ Flow(t, "unlock", "lock")
  /\ Unlock
  /\ mp' = [mp EXCEPT ![t] = NULL]
  /\ UNCHANGED <<workq, m_next, waiting, sent, done>>

-----------------------------------------------------------------------------
(* enqueue_msg.                                                            *)

enqueue_msg(t, m) ==
  /\ Flow(t, "idle", "put")
  /\ m \notin sent
  /\ sent' = sent \cup {m}
  /\ mp' = [mp EXCEPT ![t] = m]
  /\ UNCHANGED <<workq, m_next, qlock, waiting, done>>

Push(t) ==
  /\ Flow(t, "put", "put_unlock")
  /\ Lock(t)
  /\ m_next' = [m_next EXCEPT ![mp[t]] = workq]
  /\ workq' = mp[t]
  /\ UNCHANGED <<waiting, mp, sent, done>>

PushUnlock(t) ==
  /\ Flow(t, "put_unlock", "signal")
  /\ Unlock
  /\ UNCHANGED <<workq, m_next, waiting, mp, sent, done>>

Wake(t) == waiting' = waiting \ {t} /\ pc' = [pc EXCEPT ![t] = "lock"]

\* The mutant that forgets pthread_cond_signal.
SignalForgotten(t) ==
  /\ Flow(t, "signal", "idle")
  /\ mp' = [mp EXCEPT ![t] = NULL]
  /\ UNCHANGED <<workq, m_next, qlock, waiting, sent, done>>

Signal(t) ==
  /\ pc[t] = "signal"
  /\ \/ waiting = {} /\ pc' = [pc EXCEPT ![t] = "idle"] /\ UNCHANGED waiting
     \/ \E w \in waiting : /\ waiting' = waiting \ {w}
                           /\ pc' = [pc EXCEPT ![t] = "idle", ![w] = "lock"]
  /\ mp' = [mp EXCEPT ![t] = NULL]
  /\ UNCHANGED <<workq, m_next, qlock, sent, done>>

\* A spurious wakeup.
Spurious(t) ==
  /\ t \in waiting
  /\ Wake(t)
  /\ UNCHANGED <<workq, m_next, qlock, mp, sent, done>>

-----------------------------------------------------------------------------
ConsumerStep(t) == Acquire(t) \/ Wait(t) \/ Take(t) \/ Process(t)
ProducerStep(t) == Push(t) \/ PushUnlock(t) \/ Signal(t)
Next == \/ \E t \in Consumer : ConsumerStep(t) \/ Spurious(t)
        \/ \E t \in Producer : ProducerStep(t) \/ \E m \in Msg : enqueue_msg(t, m)

\* Threads run; nothing makes a producer call or a sleeper wake by itself.
Spec == /\ Init /\ [][Next]_vars
        /\ \A t \in Consumer : WF_vars(ConsumerStep(t))
        /\ \A t \in Producer : WF_vars(ProducerStep(t))

-----------------------------------------------------------------------------
Chain == LET w[n \in 0 .. Cardinality(Msg)] ==
               IF n = 0 THEN workq
               ELSE IF w[n - 1] = NULL THEN NULL ELSE m_next[w[n - 1]]
         IN  w
OnQueue == {Chain[n] : n \in DOMAIN Chain} \ {NULL}
NotYet == {mp[t] : t \in {p \in Producer : pc[p] = "put"}}

\* Every message sent is in exactly one place: not pushed yet, on the queue,
\* or taken by one consumer; the queue ends.
Conserved ==
  /\ Chain[Cardinality(Msg)] = NULL
  /\ sent = NotYet \cup OnQueue \cup done
  /\ OnQueue \cap (NotYet \cup done) = {} /\ NotYet \cap done = {}
  /\ \A t, u \in Consumer : t # u /\ mp[t] # NULL => mp[t] # mp[u]

\* No wakeup is lost: if messages are queued while a consumer sleeps, some
\* other thread is about to signal or to look at the queue.
NoLostWakeup ==
  OnQueue # {} /\ waiting # {} =>
    \/ \E t \in Producer : pc[t] \in {"put_unlock", "signal"}
    \/ \E t \in Consumer : pc[t] # "sleep"

\* Every message pushed is processed, although the signal comes after the
\* unlock and may find nobody asleep or wake a consumer for nothing.
Taken(m) == m \in done
Processed == \A m \in Msg : m \in OnQueue ~> Taken(m)
=============================================================================
