------------------------------- MODULE Semaphore -------------------------------
(***************************************************************************)
(* The counting semaphore of semaphore.hpp, as operators on its count.     *)
(* thread_pool and job_queue are both built on it.                         *)
(***************************************************************************)
EXTENDS Naturals

\* WaitForSingleObject (or wait_any, through the friend class waiter) returns
\* for this semaphore, at once or after blocking, only while its count is > 0.
Signalled(count) == count > 0

Acquired(count) == count - 1

\* ReleaseSemaphore fails at the maximum count and changes nothing; release()
\* drops its BOOL result, so that the caller never learns of it.
Refuses(count, max) == count >= max

Released(count, max) == IF Refuses(count, max) THEN count ELSE count + 1

===============================================================================
