---------------------------- MODULE SteadyTimer ----------------------------
(***************************************************************************)
(* boost::asio::steady_timer, as the server uses it: every timer has at    *)
(* most one wait outstanding, whose handler either starts the next wait or *)
(* ends the chain (Session::check_idle_timer, Reader::check_read_deadline, *)
(* Writer::check_write_deadline).  Asio is a library, so this module is    *)
(* its documented behaviour and not code of the repository.                *)
(*                                                                         *)
(* A timer keeps the expiry its owner last set and, while a wait is        *)
(* pending, the due time with which that wait entered the timer queue:     *)
(* setting a new expiry cancels the pending wait but does not move it.     *)
(* A wait whose handler is already queued can no longer be cancelled.      *)
(* Both times count seconds down to 0, so no clock has to be bounded.      *)
(***************************************************************************)
EXTENDS Integers

Never == -1                  \* steady_timer::time_point::max()

Times(n) == 0 .. n \cup {Never}

\* wait: none    - no wait was started, or its handler has run
\*       pending - in the timer queue
\*       aborted - handler queued with operation_aborted
\*       expired - handler queued with success
Timer(n) == [wait   : {"none", "pending", "aborted", "expired"},
             expiry : Times(n),
             due    : Times(n)]

AsyncWait(t) == [t EXCEPT !.wait = "pending", !.due = t.expiry]

Cancel(t) == IF t.wait = "pending"
             THEN [t EXCEPT !.wait = "aborted", !.due = Never]
             ELSE t

SetExpiry(t, n) == [t EXCEPT !.expiry = n]

\* expires_after and expires_at: the two halves are separate steps for a
\* caller that does not run on the timer's strand.
ExpiresAfter(t, n) == SetExpiry(Cancel(t), n)

\* A timer made by a constructor of the server: expires_at(max), async_wait.
NewTimer == [wait |-> "pending", expiry |-> Never, due |-> Never]

Ended(t) == [t EXCEPT !.wait = "none"]

IsDue(t) == t.wait = "pending" /\ t.due = 0

Fire(t) == [t EXCEPT !.wait = "expired", !.due = Never]

CountDown(n) == IF n > 0 THEN n - 1 ELSE n

Elapse(t) == [t EXCEPT !.expiry = CountDown(@), !.due = CountDown(@)]
=============================================================================
