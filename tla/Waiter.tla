------------------------------- MODULE Waiter -------------------------------
(***************************************************************************)
(* How a thread sleeps on a condition in shared memory and is woken        *)
(* (libipc waiter_helper.h, waiter_linux.h).  A waiter has a count of      *)
(* threads that came, a count of those that found their condition false, a *)
(* semaphore that wakes them, a second one on which each woken thread      *)
(* answers, and a robust mutex.  The operators are the steps of wait_if,   *)
(* broadcast and quit_waiting; ShmChan gives each its place in a call and  *)
(* the condition waited for.                                               *)
(***************************************************************************)
EXTENDS Integers

CONSTANTS Waiters,     \* the waiters: cc_waiter_, wt_waiter_, rd_waiter_
          Threads

VARIABLES waiting,     \* waiting_[w]
          counter,     \* counter_[w], guarded by lock[w]
          sema, hand,  \* the two semaphores of w
          lock,        \* lock[w]: the thread that holds lock_, or Free
          isWaiting,   \* is_waiting_ of the waiter t waits on
          needDest,    \* need_dest_ of that waiter
          dead         \* the threads whose process has died

waiterVars == <<waiting, counter, sema, hand, lock, isWaiting, needDest>>

Free == "free"

WaiterInit ==
    /\ waiting = [w \in Waiters |-> 0]
    /\ counter = [w \in Waiters |-> 0]
    /\ sema = [w \in Waiters |-> 0]
    /\ hand = [w \in Waiters |-> 0]
    /\ lock = [w \in Waiters |-> Free]
    /\ isWaiting = [t \in Threads |-> FALSE]
    /\ needDest = [t \in Threads |-> FALSE]
    /\ dead = {}

\* mutex::lock: the lock of a dead owner is made consistent and taken.
CanLock(w) == lock[w] = Free \/ lock[w] \in dead

(***************************************************************************)
(* wait_if                                                                 *)
(***************************************************************************)
WaitEnter(t, w) ==
    /\ waiting' = [waiting EXCEPT ![w] = @ + 1]
    /\ isWaiting' = [isWaiting EXCEPT ![t] = TRUE]
    /\ UNCHANGED <<counter, sema, hand, lock, needDest>>

\* Mutant: a thread that found its condition false does not count itself.
WaitRegisterUncounted(t, w) ==
    /\ CanLock(w)
    /\ lock' = [lock EXCEPT ![w] = Free]
    /\ UNCHANGED <<waiting, counter, sema, hand, isWaiting, needDest>>

\* Under the lock, the condition has been found false.
WaitRegister(t, w) ==
    /\ CanLock(w)
    /\ lock' = [lock EXCEPT ![w] = Free]
    /\ counter' = [counter EXCEPT ![w] = @ + 1]
    /\ UNCHANGED <<waiting, sema, hand, isWaiting, needDest>>

\* Under the lock, the condition has been found true: the guard undoes the entry.
WaitNotNeeded(t, w) ==
    /\ CanLock(w)
    /\ lock' = [lock EXCEPT ![w] = Free]
    /\ waiting' = [waiting EXCEPT ![w] = @ - 1]
    /\ isWaiting' = [isWaiting EXCEPT ![t] = FALSE]
    /\ UNCHANGED <<counter, sema, hand, needDest>>

\* Mutant: need_dest_ is not looked at before the sleep.
WaitEndsSoonNever(t) == FALSE

\* The loop before each sleep: it ends when the wait was called off, and a
\* call-off noticed as need_dest_ still takes a token, for at most 100 ms.
WaitCalledOff(t) == ~isWaiting[t]

WaitEndsSoon(t) == isWaiting[t] /\ needDest[t]

WaitLook(t) ==
    /\ needDest' = [needDest EXCEPT ![t] = FALSE]
    /\ UNCHANGED <<waiting, counter, sema, hand, lock, isWaiting>>

WaitWoken(w) ==
    /\ sema[w] > 0
    /\ sema' = [sema EXCEPT ![w] = @ - 1]
    /\ UNCHANGED <<waiting, counter, hand, lock, isWaiting, needDest>>

\* finally.do_exit and the answer.
WaitLeave(t, w) ==
    /\ waiting' = [waiting EXCEPT ![w] = @ - 1]
    /\ isWaiting' = [isWaiting EXCEPT ![t] = FALSE]
    /\ hand' = [hand EXCEPT ![w] = @ + 1]
    /\ UNCHANGED <<counter, sema, lock, needDest>>

(***************************************************************************)
(* broadcast: wakes all that are counted and waits for an answer from each *)
(* while it holds the lock; after a first answer that does not come it     *)
(* waits no more.                                                          *)
(***************************************************************************)
NobodyWaits(w) == waiting[w] = 0

\* broadcast and quit_waiting lock, post to all and take the first count off.
PostAll(t, w) ==
    /\ CanLock(w)
    /\ IF counter[w] > 0
       THEN /\ sema' = [sema EXCEPT ![w] = @ + counter[w]]
            /\ counter' = [counter EXCEPT ![w] = @ - 1]
            /\ lock' = [lock EXCEPT ![w] = t]
       ELSE /\ lock' = [lock EXCEPT ![w] = Free]
            /\ UNCHANGED <<sema, counter>>
    /\ UNCHANGED <<waiting, hand, isWaiting, needDest>>

\* An answer; broadcast takes the next count off before it waits again.
Answered(w) ==
    /\ hand[w] > 0
    /\ hand' = [hand EXCEPT ![w] = @ - 1]
    /\ IF counter[w] > 0
       THEN counter' = [counter EXCEPT ![w] = @ - 1] /\ UNCHANGED lock
       ELSE lock' = [lock EXCEPT ![w] = Free] /\ UNCHANGED counter
    /\ UNCHANGED <<waiting, sema, isWaiting, needDest>>

Unanswered(w) ==
    /\ counter' = [counter EXCEPT ![w] = 0]
    /\ lock' = [lock EXCEPT ![w] = Free]
    /\ UNCHANGED <<waiting, sema, hand, isWaiting, needDest>>

(***************************************************************************)
(* quit_waiting of the waiter t waits on, called by another thread.        *)
(***************************************************************************)
QuitFlag(t) ==
    /\ needDest' = [needDest EXCEPT ![t] = TRUE]
    /\ UNCHANGED <<waiting, counter, sema, hand, lock, isWaiting>>

QuitNeeded(t, w) == isWaiting[t] /\ waiting[w] > 0

QuitExchange(t) ==
    /\ isWaiting' = [isWaiting EXCEPT ![t] = FALSE]
    /\ UNCHANGED <<waiting, counter, sema, hand, lock, needDest>>

\* It waits for one answer, whatever it has posted.
QuitDone(w, answered) ==
    /\ answered => hand[w] > 0
    /\ hand' = [hand EXCEPT ![w] = IF answered THEN @ - 1 ELSE @]
    /\ lock' = [lock EXCEPT ![w] = Free]
    /\ UNCHANGED <<waiting, counter, sema, isWaiting, needDest>>
=============================================================================
