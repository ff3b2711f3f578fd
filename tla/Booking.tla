------------------------------ MODULE Booking -------------------------------
(***************************************************************************)
(* Booking a time by phone: what the caller says is turned into a time,    *)
(* the tenant's Google calendar is asked whether it is free, the caller is *)
(* offered that time or another one, and after a "yes" in a later turn the *)
(* event is inserted.  The text message that confirms it changes nothing   *)
(* that is modelled.                                                       *)
(*                                                                         *)
(* Nothing holds the time between the question and the insertion: other    *)
(* calls and the tenant's staff write the same calendar.  Each action is   *)
(* one outside call of a turn with the code around it.  The turn itself    *)
(* (locks, session, gates) is module Conversation, the token of the        *)
(* calendar is module Integrations.                                        *)
(*                                                                         *)
(* A time is a number of half hours since Monday of the first week; events *)
(* without a time of day are left out, as the code leaves them out.        *)
(***************************************************************************)
EXTENDS Integers, FiniteSets, FiniteSetsExt

CONSTANTS
  Calls,
  Industries,  \* of the tenant
  Today,       \* the day of the calls
  Sayings,     \* how a time may be asked for
  StaffTimes,  \* when the staff may enter something
  Dur,         \* CALENDAR_DEFAULT_DURATION_MIN in half hours
  MaxEvents    \* bound: events in the calendar

ASSUME BookingAssumption ==
  /\ Industries \subseteq {"restaurant", "finance", "other"}
  /\ Today \in Nat /\ Dur \in Nat \ {0} /\ MaxEvents \in Nat /\ StaffTimes \subseteq Nat
  /\ \A u \in Sayings :
       /\ u.week \in {"relative", "this", "next", "after"} /\ u.day \in Nat
       /\ u.hour \in 0..24 /\ u.half \in 0..1

PerDay == 48
Step   == 1                     \* _find_free_slots tries every 30 minutes
NoTime == -1

VARIABLES
  industry,  \* of the tenant
  events,    \* the calendar: [from, to, by, met]
  call       \* each caller's turn and pending task

bookingVars == <<industry, events, call>>

Idle == [pc |-> "idle", want |-> NoTime, offer |-> NoTime, met |-> FALSE]

BookingInit ==
  /\ industry \in Industries
  /\ events = {}
  /\ call = [c \in Calls |-> Idle]

-----------------------------------------------------------------------------
(* utils/korean_time: what the caller says                                 *)

Day(t)       == t \div PerDay
Weekday(day) == day % 7

(* "this week", "next week", "the week after" and a weekday; a day of this *)
(* week that is over is meant as the next one.                             *)
ResolveWeekWeekday(week, wd) ==
  LET now == Weekday(Today) IN
  CASE week = "this" /\ wd >= now -> Today + (wd - now)
    [] week = "this" /\ wd < now  -> Today + (7 - now + wd)
    [] week = "next"              -> Today + (7 - now) + wd
    [] week = "after"             -> Today + (14 - now) + wd

ResolveHour_AfternoonAlways(qual, h) ==    \* mutant: 12 o'clock is not special
  IF qual = "afternoon" THEN h + 12 ELSE h

ResolveHour(qual, h) ==
  CASE qual = "morning"   -> IF h = 12 THEN 0 ELSE h
    [] qual = "afternoon" -> IF h \in 1..11 THEN h + 12 ELSE h
    [] qual = "evening"   -> IF h \in 5..11 THEN h + 12 ELSE h
    [] qual = "noon"      -> IF h \in 1..3 THEN h + 12 ELSE h
    [] OTHER              -> h                     \* none, "dawn", "breakfast"

(* extract_absolute_datetime, and extract_absolute_date_only where it has  *)
(* no time: both a day and an hour are needed.                             *)
ExtractDay(u) == IF u.week = "relative" THEN Today + u.day ELSE ResolveWeekWeekday(u.week, u.day)

ExtractTime(u) ==
  LET h == ResolveHour(u.qual, u.hour) IN
  IF h > 23 THEN NoTime ELSE ExtractDay(u) * PerDay + 2 * h + u.half

(* _hour_label: how the assistant says an hour.                            *)
HourLabel(h) ==
  CASE h = 0       -> [qual |-> "morning",   hour |-> 12]
    [] h \in 1..5   -> [qual |-> "dawn",      hour |-> h]
    [] h \in 6..11  -> [qual |-> "morning",   hour |-> h]
    [] h = 12      -> [qual |-> "afternoon", hour |-> 12]
    [] h \in 13..17 -> [qual |-> "afternoon", hour |-> h - 12]
    [] OTHER        -> [qual |-> "evening",   hour |-> h - 12]

(* What the assistant says of a time, said back by the caller.             *)
SaidBack(t) ==
  LET l == HourLabel((t % PerDay) \div 2) IN
  [week |-> "relative", day |-> Day(t) - Today, qual |-> l.qual, hour |-> l.hour, half |-> t % 2]

-----------------------------------------------------------------------------
(* CalendarConnector.check_availability                                    *)

Closed == <<0, 0>>

(* _get_business_hours: a fixed table, in half hours of the day.           *)
BusinessHours(wd) ==
  CASE industry = "restaurant" -> <<22, 44>>
    [] industry = "finance"    -> IF wd <= 4 THEN <<18, 32>> ELSE Closed
    [] OTHER                   -> IF wd <= 4 THEN <<18, 36>> ELSE Closed

Overlaps(from, to, e) == ~(to <= e.from \/ from >= e.to)

(* events.list of one day.                                                 *)
Busy(day) == {e \in events : Overlaps(day * PerDay, (day + 1) * PerDay, e)}

FreeSlots_TooLate(day) ==     \* mutant: a slot may end after closing time
  LET h == BusinessHours(Weekday(day)) IN
  {s \in (day * PerDay + h[1])..(day * PerDay + h[2]) : \A e \in Busy(day) : ~Overlaps(s, s + Dur, e)}

(* _find_free_slots, without the order.                                    *)
FreeSlots(day) ==
  LET open == day * PerDay + BusinessHours(Weekday(day))[1]
      close == day * PerDay + BusinessHours(Weekday(day))[2] IN
  {s \in open..close : /\ (s - open) % Step = 0 /\ s + Dur <= close
                       /\ \A e \in Busy(day) : ~Overlaps(s, s + Dur, e)}

Distance(a, b) == IF a < b THEN b - a ELSE a - b

Nearest(slots, t) ==
  CHOOSE s \in slots : \A r \in slots :
    Distance(s, t) < Distance(r, t) \/ (Distance(s, t) = Distance(r, t) /\ s <= r)

(* _find_next_free_slot_in_open_days: of the next seven days the first     *)
(* open one with a free slot; a day whose list cannot be read is passed.   *)
NextFreeSlot(t, unread) ==
  LET days == {d \in (Day(t) + 1)..(Day(t) + 7) :
                 BusinessHours(Weekday(d)) # Closed /\ d \notin unread /\ FreeSlots(d) # {}} IN
  IF days = {} THEN NoTime ELSE Min(FreeSlots(Min(days)))

(* Closed days are found out first; on an open day any time that meets no  *)
(* event is free, inside opening hours or not.                             *)
Availability(t, unread) ==
  IF BusinessHours(Weekday(Day(t))) = Closed
    THEN [status |-> "closed_day", slot |-> NextFreeSlot(t, unread)]
  ELSE IF \A e \in Busy(Day(t)) : ~Overlaps(t, t + Dur, e)
    THEN [status |-> "available", slot |-> t]
  ELSE [status |-> "conflict",
        slot |-> IF FreeSlots(Day(t)) = {} THEN NoTime ELSE Nearest(FreeSlots(Day(t)), t)]

-----------------------------------------------------------------------------
(* The turns                                                               *)

(* The caller asks for a time and the LLM calls schedule_callback with it. *)
(* Without a time, or with a shape the regular expression refuses, the     *)
(* caller is asked for it.                                                 *)
AskFor(c, t) ==
  IF t = NoTime THEN UNCHANGED call
  ELSE call' = [call EXCEPT ![c] = [Idle EXCEPT !.pc = "check", !.want = t]]

AskTime(c) ==
  /\ call[c].pc = "idle"
  /\ \E u \in Sayings : AskFor(c, ExtractTime(u))
  /\ UNCHANGED <<industry, events>>

(* Does a time meet an event?  Remembered of the time that is offered, for *)
(* BookedTimeWasFree; no code reads it.                                    *)
Meets(t) == \E e \in events : Overlaps(t, t + Dur, e)

(* _direct_schedule: the arguments the LLM gave, without an offer.         *)
DirectSchedule(c) == call' = [call EXCEPT ![c].pc = "insert", ![c].offer = call[c].want]

(* _force_check_then_confirm: the offer waits as a pending task.  When the *)
(* calendar could not be asked the time is booked at once.                 *)
CheckThenConfirm_KeepsWanted(c) ==     \* mutant: the suggested time is said, not booked
  /\ call[c].pc = "check"
  /\ LET a == Availability(call[c].want, {}) IN
     call' = [call EXCEPT ![c] = IF a.slot = NoTime THEN Idle
                ELSE [@ EXCEPT !.pc = "wait", !.offer = call[c].want, !.met = Meets(call[c].want)]]
  /\ UNCHANGED <<industry, events>>

CheckThenConfirm(c) ==
  /\ call[c].pc = "check"
  /\ \/ DirectSchedule(c)
     \/ \E unread \in {{}, {Day(call[c].want) + 1}} :
          LET a == Availability(call[c].want, unread) IN
          call' = [call EXCEPT ![c] = IF a.slot = NoTime THEN Idle
                     ELSE [@ EXCEPT !.pc = "wait", !.offer = a.slot, !.met = Meets(a.slot)]]
  /\ UNCHANGED <<industry, events>>

(* What step 0 of task_branch_node reads of the reply: words of query_     *)
(* refine's sentence ("agrees", "goes ahead", "declines"), a short yes, a  *)
(* clear no.  A clear no counts more than any yes.                         *)
Replies == [agrees : BOOLEAN, proceeds : BOOLEAN, declines : BOOLEAN, yes : BOOLEAN, no : BOOLEAN]

Agreed(r)   == (r.agrees \/ r.proceeds \/ r.yes) /\ ~r.no
Declined(r) == r.declines \/ r.no

(* The pending task is cleared whatever the reply is: booked, declined, or *)
(* another wish, which is taken up as a new one.                           *)
Reply(c) ==
  /\ call[c].pc = "wait"
  /\ \E r \in Replies :
       IF Agreed(r) THEN call' = [call EXCEPT ![c].pc = "insert"]
       ELSE IF Declined(r) THEN call' = [call EXCEPT ![c] = Idle]
       ELSE \E u \in Sayings : AskFor(c, ExtractTime(u)) \/ call' = [call EXCEPT ![c] = Idle]
  /\ UNCHANGED <<industry, events>>

(* schedule_callback: events.insert, without another look.  An answer that *)
(* is lost leaves the event and the caller is told that it failed.         *)
Event(c) == [from |-> call[c].offer, to |-> call[c].offer + Dur, by |-> c, met |-> call[c].met]

Insert(c) ==
  /\ call[c].pc = "insert"
  /\ call' = [call EXCEPT ![c] = Idle]
  /\ \/ Cardinality(events) < MaxEvents /\ events' = events \cup {Event(c)}
     \/ UNCHANGED events                 \* refused, or the tenant has no calendar
  /\ UNCHANGED industry

(* The staff write their calendar.                                         *)
Staff ==
  /\ \/ /\ Cardinality(events) < MaxEvents
        /\ \E t \in StaffTimes :
             events' = events \cup {[from |-> t, to |-> t + Dur, by |-> "staff", met |-> FALSE]}
     \/ \E e \in events : events' = events \ {e}
  /\ UNCHANGED <<industry, call>>

BookingNext ==
  \/ Staff
  \/ \E c \in Calls : AskTime(c) \/ CheckThenConfirm(c) \/ Reply(c) \/ Insert(c)

BookingSpec == BookingInit /\ [][BookingNext]_bookingVars

-----------------------------------------------------------------------------
TypeOK ==
  /\ industry \in Industries
  /\ \A e \in events : e.from \in Nat /\ e.to = e.from + Dur /\ e.by \in Calls \cup {"staff"}
  /\ \A c \in Calls : /\ call[c].pc \in {"idle", "check", "wait", "insert"}
                      /\ call[c].want \in Int /\ call[c].offer \in Int

(* Two bookings meet only when one was made after the other's check: a     *)
(* time that is booked met no event that was there when it was offered.    *)
(* (A time that runs past midnight is compared with its first day only.)   *)
BookedTimeWasFree == \A e \in events : Day(e.from) = Day(e.to - 1) => ~e.met

(* Another time than the one asked for is offered only on an open day,     *)
(* inside opening hours, and at most a week later.                         *)
SuggestionIsOpen ==
  \A c \in Calls : LET t == call[c].offer  d == Day(t)  h == BusinessHours(Weekday(d)) IN
    call[c].pc = "wait" /\ t # call[c].want =>
      /\ h # Closed /\ d - Day(call[c].want) \in 0..7
      /\ t >= d * PerDay + h[1] /\ t + Dur <= d * PerDay + h[2]

(* The time the assistant says is the time it books: said back by the      *)
(* caller, it is understood as the same time.                              *)
OfferSaidBackIsUnderstood ==
  \A c \in Calls : call[c].offer # NoTime => ExtractTime(SaidBack(call[c].offer)) = call[c].offer
=============================================================================
