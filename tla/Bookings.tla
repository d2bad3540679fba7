------------------------------ MODULE Bookings -----------------------------
(***************************************************************************)
(* Bookings of product demonstrations (DemoBookingsService).  A booking is *)
(* checked against the others, then the calendar is called, and only then  *)
(* is it in memory; a customer moves or cancels it by its token, and       *)
(* admins move it, cancel it or set its status.                            *)
(*                                                                         *)
(* Times are counted in quarters of an hour; a demonstration takes two.    *)
(***************************************************************************)
EXTENDS Integers, FiniteSets

CONSTANTS
    Demos,          \* requests for a booking; each makes one at most
    Customers,      \* e-mail addresses
    AskedBy,        \* who makes each request
    Tag,            \* its idempotencyKey, or NoTag
    NoTag,
    Times           \* times that are asked for

ASSUME BookingsAssumption ==
    /\ Times \subseteq Int /\ Times # {}
    /\ AskedBy \in [Demos -> Customers]

VARIABLES
    demo,           \* booking.status
    slot,           \* scheduledAt, of a request under way too
    hurried,        \* history: other bookings were placed during its calendar call
    forced          \* history: an admin placed it without the check

bookingVars == <<demo, slot, hurried, forced>>

Placed == {b \in Demos : demo[b] \in {"confirmed", "rescheduled", "completed"}}

BookingsInit ==
    /\ demo = [b \in Demos |-> "none"]
    /\ slot \in [Demos -> {CHOOSE t \in Times : TRUE}]
    /\ hurried = {}
    /\ forced = {}

-----------------------------------------------------------------------------
(* Checks.  An operator whose name has an underscore is the operator before   *)
(* the underscore with a slip in it.                                          *)

Near(s, t, quarters) == s - t < quarters /\ t - s < quarters

\* Some other booking takes time t.
Collides_Confirmed(b, t) ==
    \E c \in Demos \ {b} : demo[c] = "confirmed" /\ Near(slot[c], t, 2)
Collides(b, t) ==
    \E c \in Placed \ {b} : Near(slot[c], t, 2)

\* The request was answered before, or the customer has a booking around that time.
IsRepeated(b, t) ==
    \/ Tag[b] # NoTag
       /\ \E c \in Demos : demo[c] \notin {"none", "calling"} /\ Tag[c] = Tag[b]
    \/ \E c \in Placed : AskedBy[c] = AskedBy[b] /\ Near(slot[c], t, 8)

\* Booking b comes to its slot: whoever is still calling did not see it.
Place(b) == hurried' = hurried \cup {c \in Demos \ {b} : demo[c] = "calling"}

-----------------------------------------------------------------------------
(* The actions *)

\* create, up to createMeetingEvent.
Request(b, t) ==
    /\ demo[b] = "none"
    /\ ~IsRepeated(b, t)
    /\ ~Collides(b, t)
    /\ demo' = [demo EXCEPT ![b] = "calling"]
    /\ slot' = [slot EXCEPT ![b] = t]
    /\ hurried' = hurried \ {b}
    /\ UNCHANGED forced

\* The calendar has answered, or failed; the booking is pushed either way.
Confirmed(b) ==
    /\ demo[b] = "calling"
    /\ demo' = [demo EXCEPT ![b] = "confirmed"]
    /\ Place(b)
    /\ UNCHANGED <<slot, forced>>

\* rescheduleByToken, whatever the status of the booking.
RescheduleByToken(b, t) ==
    /\ demo[b] \notin {"none", "calling"}
    /\ ~Collides(b, t)
    /\ demo' = [demo EXCEPT ![b] = "rescheduled"]
    /\ slot' = [slot EXCEPT ![b] = t]
    /\ forced' = forced \ {b}
    /\ hurried' = (hurried \ {b}) \cup {c \in Demos \ {b} : demo[c] = "calling"}

\* reschedule, by an admin: no check.
Reschedule(b, t) ==
    /\ demo[b] \notin {"none", "calling"}
    /\ demo' = [demo EXCEPT ![b] = "rescheduled"]
    /\ slot' = [slot EXCEPT ![b] = t]
    /\ forced' = forced \cup {b}
    /\ Place(b)

\* cancelByToken, cancel, or updateStatus to the same effect.
CancelBooking(b) ==
    /\ demo[b] \notin {"none", "calling"}
    /\ demo' = [demo EXCEPT ![b] = "cancelled"]
    /\ UNCHANGED <<slot, hurried, forced>>

\* updateStatus or markAttendance; a cancelled booking comes back without a check.  What
\* is "new" is confirmed here.
SetBookingStatus(b, status) ==
    /\ demo[b] \notin {"none", "calling"}
    /\ demo' = [demo EXCEPT ![b] = status]
    /\ IF demo[b] = "cancelled"
       THEN forced' = forced \cup {b} /\ Place(b)
       ELSE UNCHANGED <<forced, hurried>>
    /\ UNCHANGED slot

\* The process restarts; who waits for the calendar may ask again.
RestartBookings ==
    /\ demo' = [b \in Demos |-> IF demo[b] = "calling" THEN "none" ELSE demo[b]]
    /\ UNCHANGED <<slot, hurried, forced>>

BookingsNext ==
    \/ RestartBookings
    \/ \E b \in Demos :
          \/ Confirmed(b) \/ CancelBooking(b)
          \/ \E t \in Times : Request(b, t) \/ RescheduleByToken(b, t) \/ Reschedule(b, t)
          \/ \E status \in {"confirmed", "rescheduled", "completed"} : SetBookingStatus(b, status)

BookingsSafety == BookingsInit /\ [][BookingsNext]_bookingVars
-----------------------------------------------------------------------------
(* Properties *)

\* What the variables hold.
BookingsTypeOK ==
    /\ demo \in [Demos -> {"none", "calling", "confirmed", "rescheduled", "completed",
                           "cancelled"}]
    /\ slot \in [Demos -> Times]
    /\ hurried \subseteq Demos /\ forced \subseteq Demos

\* Two demonstrations never overlap, in whatever order they are booked, moved, cancelled
\* and booked again: unless an admin put one of them there, or a booking was placed while
\* another one waited for the calendar.
SlotsApart ==
    \A b, c \in Placed \ (hurried \cup forced) : b # c => ~Near(slot[b], slot[c], 2)
=============================================================================
