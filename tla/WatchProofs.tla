---------------------------- MODULE WatchProofs ----------------------------
(***************************************************************************)
(* That a watch shows every event once and in order, and that events.jsonl *)
(* holds what has happened, once and in order, for any number of observers,*)
(* commands and events and any choice of faults.  The argument follows a   *)
(* line from the file that is read through the queue of the tailer to what *)
(* is shown and, for Claude, appended: taken, waiting and still to be read *)
(* lines are, at each moment, the lines there are.                         *)
(***************************************************************************)
EXTENDS Watch, SequenceTheorems, TLAPS

USE WatchAssumption

Reading == {"poll", "check", "last", "drain"}

-----------------------------------------------------------------------------
(* Sequences of events *)

Events == Seq(Logged)
Queues == Seq(Logged \cup {Finished})

\* The events of the log are numbers.
LEMMA Numbers ==
  /\ Logged \subseteq Nat \ {0} /\ Cancelled \in Logged /\ NotCounted \in Nat
  /\ 1 .. MaxEvents \subseteq Logged /\ Finished \in Logged \cup {Finished}
  BY DEF Logged, Cancelled, NotCounted, Finished

\* The empty queue, and the one with the end of the session in it.
LEMMA Ends ==
  <<>> \in Events /\ <<>> \in Queues /\ <<Finished>> \in Queues /\ Len(<<>>) = 0
  /\ Len(<<Finished>>) = 1 /\ <<Finished>>[1] = Finished
  BY DEF Events, Queues

\* A log is a sequence of numbers.
LEMMA NumberedEvents == ASSUME NEW s \in Events PROVE Len(s) \in Nat /\ s \in Seq(Nat)
<1>1. Len(s) \in Nat
  BY DEF Events
<1>2. Logged \subseteq Nat
  BY Numbers
<1> QED
  BY <1>1, <1>2, SeqMonotonic DEF Events

\* A log is a queue.
LEMMA QueuedEvents == ASSUME NEW s \in Events PROVE s \in Queues
  BY DEF Events, Queues

\* The lines an observer reads.
LEMMA LinesType ==
  ASSUME TypeOK
  PROVE  /\ Lines \in Events /\ Size \in Nat
         /\ Len(Lines) = IF runtime = "native" THEN Len(events) ELSE happened
         /\ runtime # "native" => \A i \in 1 .. Len(Lines) : Lines[i] = i
<1>1. CASE runtime = "native"
  BY <1>1 DEF TypeOK, Lines, Size, Events
<1>2. CASE runtime # "native"
  <2>1. Lines = [i \in 1 .. happened |-> i] /\ happened \in Nat /\ 1 .. happened \subseteq Logged
    BY <1>2, Numbers DEF TypeOK, Lines
  <2>2. Lines \in Events /\ Len(Lines) = happened
    BY <2>1 DEF Events
  <2> QED
    BY <1>2, <2>1, <2>2 DEF Size, TypeOK
<1> QED
  BY <1>1, <1>2

\* Half a line more or less does not change where the next line begins.
LEMMA Halves ==
  ASSUME NEW k \in Nat, NEW h \in 0 .. 1
  PROVE  (2 * k + 1) \div 2 = k /\ (2 * k + h) % 2 = h
  OBVIOUS

\* A part of a sequence of events.
LEMMA Part ==
  ASSUME NEW s \in Events, NEW m \in Nat \ {0}, NEW n \in Nat, n <= Len(s)
  PROVE  /\ SubSeq(s, m, n) \in Events
         /\ Len(SubSeq(s, m, n)) = IF m <= n THEN n - m + 1 ELSE 0
         /\ \A i \in 1 .. n - m + 1 : SubSeq(s, m, n)[i] = s[m + i - 1]
<1>1. \A i \in m .. n : s[i] \in Logged
  BY DEF Events
<1> QED
  BY <1>1, SubSeqProperties DEF Events

\* The rest of a sequence, place by place.
LEMMA Rest ==
  ASSUME NEW s \in Events, NEW k \in Nat, NEW m \in Nat, m = Len(s), k <= m
  PROVE  /\ Len(SubSeq(s, k + 1, m)) = m - k
         /\ \A i \in 1 .. m - k : SubSeq(s, k + 1, m)[i] = s[k + i]
<1>1. PICK j \in Nat \ {0} : j = k + 1
  OBVIOUS
<1>2. /\ Len(SubSeq(s, j, m)) = IF j <= m THEN m - j + 1 ELSE 0
      /\ \A i \in 1 .. m - j + 1 : SubSeq(s, j, m)[i] = s[j + i - 1]
  BY <1>1, Part
<1>3. m - j + 1 = m - k /\ (~(j <= m) => m - k = 0)
  BY <1>1
<1>4. \A i \in 1 .. m - k : j + i - 1 = k + i
  BY <1>1
<1> QED
  BY <1>1, <1>2, <1>3, <1>4

\* What is read joins what waits.
LEMMA Joined ==
  ASSUME NEW q \in Queues, NEW s \in Events, NEW t \in Queues
  PROVE  /\ q \o t \in Queues /\ q \o s \o t \in Queues
         /\ Len(q \o t) = Len(q) + Len(t)
         /\ Len(q \o s \o t) = Len(q) + Len(s) + Len(t)
         /\ \A i \in 1 .. Len(q) : (q \o t)[i] = q[i] /\ (q \o s \o t)[i] = q[i]
         /\ \A i \in 1 .. Len(s) : (q \o s \o t)[Len(q) + i] = s[i]
         /\ \A i \in 1 .. Len(t) : /\ (q \o t)[Len(q) + i] = t[i]
                                   /\ (q \o s \o t)[Len(q) + Len(s) + i] = t[i]
<1>0. s \in Queues
  BY QueuedEvents
<1>1. /\ q \o s \in Queues /\ Len(q \o s) = Len(q) + Len(s)
      /\ \A i \in 1 .. Len(q) + Len(s) : (q \o s)[i] = IF i <= Len(q) THEN q[i] ELSE s[i - Len(q)]
  BY <1>0, ConcatProperties DEF Queues
<1>2. ASSUME NEW u \in Queues
      PROVE  /\ u \o t \in Queues /\ Len(u \o t) = Len(u) + Len(t)
             /\ \A i \in 1 .. Len(u) : (u \o t)[i] = u[i]
             /\ \A i \in 1 .. Len(t) : (u \o t)[Len(u) + i] = t[i]
  <2>1. /\ u \o t \in Queues /\ Len(u \o t) = Len(u) + Len(t)
        /\ \A i \in 1 .. Len(u) + Len(t) : (u \o t)[i] = IF i <= Len(u) THEN u[i] ELSE t[i - Len(u)]
    BY ConcatProperties DEF Queues
  <2>2. Len(u) \in Nat /\ Len(t) \in Nat
    BY DEF Queues
  <2> QED
    BY <2>1, <2>2
<1>3. Len(q) \in Nat /\ Len(s) \in Nat
  BY <1>0 DEF Queues
<1> QED
  BY <1>1, <1>2, <1>3

-----------------------------------------------------------------------------
(* Types *)

\* The fields of an observer, one by one.
LEMMA ObserverFields ==
  ASSUME NEW x \in Observer
  PROVE  /\ x.pc \in {"idle", "poll", "check", "last", "drain", "ensure", "create", "write"}
         /\ x.offset \in Nat /\ x.partial \in 0 .. 1 /\ x.queue \in Queues /\ x.cached \in Nat
         /\ x.skipped \in Nat /\ x.shown \in Events /\ x.parsed \in Events
  BY DEF Observer, Queues, Events

\* A new observer is one, wherever it begins.
LEMMA NewType ==
  ASSUME NEW p \in {"idle", "poll", "check", "last", "drain", "ensure", "create", "write"}
  PROVE  [NewObserver EXCEPT !.pc = p] \in Observer /\ NewObserver \in Observer
<1>1. <<>> \in Queues /\ <<>> \in Events
  BY DEF Queues, Events
<1>2. NotCounted \in Nat
  BY Numbers
<1>3. NewObserver \in Observer
  BY <1>1, <1>2 DEF NewObserver, Observer, Queues, Events
<1> QED
  BY <1>3 DEF Observer

\* A read, with or without the end of the session behind it.
LEMMA ReadType ==
  ASSUME TypeOK, NEW o \in Observers, NEW t \in Queues
  PROVE  /\ Read(o, t) \in Observer
         /\ NewLines(o) \in Events
<1>1. w[o] \in Observer
  BY DEF TypeOK
<1> PICK x : x = w[o]
  OBVIOUS
<1>2. (x.offset - x.partial + 1) \div 2 + 1 \in Nat \ {0}
  BY <1>1, ObserverFields
<1>3. NewLines(o) \in Events
  BY <1>2, Part, LinesType DEF NewLines, Ahead, Events
<1>4. x.queue \o t \in Queues /\ x.queue \o NewLines(o) \o t \in Queues
  BY <1>1, <1>3, Joined, ObserverFields
<1>5. Size \in Nat /\ Size % 2 \in 0 .. 1
  BY LinesType
<1> QED
  BY <1>1, <1>3, <1>4, <1>5 DEF Read, Observer, Queues

\* What an event adds to the log, place by place.
LEMMA Appended ==
  ASSUME TypeOK, NEW e \in Logged, AppendEvent(e)
  PROVE  /\ events' \in Events /\ exists' \in BOOLEAN
         /\ Len(events') = Len(events) + 1 /\ events'[Len(events) + 1] = e
         /\ \A i \in 1 .. Len(events) : events'[i] = events[i]
  BY AppendProperties DEF TypeOK, AppendEvent, Events

\* An observer that has taken a step is the only one that has.
LEMMA Moved ==
  ASSUME TypeOK, NEW o \in Observers, NEW y, w' = [w EXCEPT ![o] = y]
  PROVE  /\ w'[o] = y /\ \A q \in Observers \ {o} : w'[q] = w[q]
         /\ y \in Observer => w' \in [Observers -> Observer]
  BY DEF TypeOK

\* What crosses a rewrite.
LEMMA Crossings ==
  ASSUME TypeOK, NEW what \in SUBSET {"overlap", "cancel", "crowd"}, Went(what)
  PROVE  mishaps' \subseteq {"overlap", "cancel", "crowd"}
  BY DEF TypeOK, Went

\* The crossings of writers and readers are mishaps.
LEMMA Crossing ==
  /\ AppendCrosses \subseteq {"overlap", "cancel", "crowd"}
  /\ ReadCrosses \subseteq {"overlap", "cancel", "crowd"}
  /\ \A o \in Observers : Joins(o) \subseteq {"overlap", "cancel", "crowd"}
  BY DEF AppendCrosses, ReadCrosses, Amid, Joins

\* A half line is Claude's, and of an event that is still to be counted.
TypeInv == TypeOK /\ (half = 1 => happened < MaxEvents /\ runtime # "native")

\* The first state is well typed.
LEMMA InitType == Init => TypeInv
<1> SUFFICES ASSUME Init PROVE TypeInv
  OBVIOUS
<1>1. NewObserver \in Observer
  BY NewType
<1>2. w \in [Observers -> Observer]
  BY <1>1 DEF Init
<1>3. runtime \in Runtimes /\ agent = "running" /\ happened \in 0 .. MaxEvents /\ half = 0
      /\ uses \in 0 .. MaxUses /\ mishaps = {}
  BY DEF Init
<1>5. exists \in BOOLEAN
  BY Zenon DEF Init
<1>4. events \in Seq(Logged)
  BY Ends DEF Init, Events
<1> QED
  BY <1>2, <1>3, <1>4, <1>5 DEF TypeInv, TypeOK

\* Each step of an observer keeps the types.
LEMMA ObserverType ==
  ASSUME TypeOK, NEW o \in Observers, Step(o) \/ StartWatch(o) \/ StartReplay(o) \/ Interrupt(o)
  PROVE  TypeOK'
<1> PICK x : x = w[o]
  OBVIOUS
<1>0. /\ x \in Observer
      /\ x.pc \in {"idle", "poll", "check", "last", "drain", "ensure", "create", "write"}
      /\ x.offset \in Nat /\ x.partial \in 0 .. 1 /\ x.queue \in Queues /\ x.cached \in Nat
      /\ x.skipped \in Nat /\ x.shown \in Events /\ x.parsed \in Events
  BY ObserverFields DEF TypeOK
<1>a. ASSUME NEW y \in Observer, w' = [w EXCEPT ![o] = y],
             UNCHANGED <<runtime, agent, happened, half>>, uses' \in 0 .. MaxUses,
             events' \in Events, exists' \in BOOLEAN, mishaps' \subseteq {"overlap", "cancel", "crowd"}
      PROVE  TypeOK'
  BY <1>a, Moved DEF TypeOK, Events
<1>b. /\ events \in Events /\ exists \in BOOLEAN /\ mishaps \subseteq {"overlap", "cancel", "crowd"}
      /\ uses \in 0 .. MaxUses
  BY DEF TypeOK, Events
<1>1. CASE StartWatch(o)
  <2>1. PICK p \in {"ensure", "poll"} : w' = [w EXCEPT ![o] = [NewObserver EXCEPT !.pc = p]]
    BY <1>1 DEF StartWatch, Begin
  <2>2. uses' \in 0 .. MaxUses
    BY <1>1 DEF StartWatch, Begin, TypeOK
  <2> QED
    BY <1>1, <1>a, <1>b, <2>1, <2>2, NewType, Crossings, Crossing DEF StartWatch
<1>2. CASE StartReplay(o)
  <2>1. uses' \in 0 .. MaxUses /\ w' = [w EXCEPT ![o] = [NewObserver EXCEPT !.pc = "ensure"]]
    BY <1>2 DEF StartReplay, Begin, TypeOK
  <2> QED
    BY <1>2, <1>a, <1>b, <2>1, NewType, Crossings, Crossing DEF StartReplay
<1>3. CASE Interrupt(o)
  <2>1. mishaps' \subseteq {"overlap", "cancel", "crowd"}
    BY <1>3 DEF Interrupt, Went, TypeOK
  <2> QED
    BY <1>3, <1>a, <1>b, <2>1, NewType DEF Interrupt
<1>4. CASE CountCached(o)
  <2>1. w' = [w EXCEPT ![o] = [x EXCEPT !.cached = Len(events)]]
    BY <1>4 DEF CountCached
  <2>2. [x EXCEPT !.cached = Len(events)] \in Observer
    <3>1. Len(events) \in Nat
      BY <1>b DEF Events
    <3> QED
      BY <1>0, <3>1 DEF Observer
  <2> QED
    BY <1>4, <1>a, <1>b, <2>1, <2>2, Crossings, Crossing DEF CountCached
<1>5. CASE Poll(o)
  <2>1. Read(o, <<>>) \in Observer
    BY ReadType, Ends
  <2>2. [Read(o, <<>>) EXCEPT !.pc = "check"] \in Observer
    BY <2>1 DEF Observer
  <2> QED
    BY <1>5, <1>a, <1>b, <2>2 DEF Poll
<1>6. CASE Check(o)
  <2>1. PICK p \in {"last", "poll"} : w' = [w EXCEPT ![o] = [x EXCEPT !.pc = p]]
    BY <1>6 DEF Check
  <2>2. [x EXCEPT !.pc = p] \in Observer
    BY <1>0 DEF Observer
  <2> QED
    BY <1>6, <1>a, <1>b, <2>1, <2>2 DEF Check
<1>7. CASE LastRead(o)
  <2>1. Read(o, <<Finished>>) \in Observer
    BY ReadType, Ends
  <2>2. [Read(o, <<Finished>>) EXCEPT !.pc = "drain"] \in Observer
    BY <2>1 DEF Observer
  <2> QED
    BY <1>7, <1>a, <1>b, <2>2, Crossings, Crossing DEF LastRead
<1>8. CASE Show(o)
  <2>1. Head(x.queue) \in Logged \cup {Finished} /\ Tail(x.queue) \in Queues
    BY <1>0, <1>8, HeadTailProperties DEF Show, Queues
  <2>2. \A t \in Queues : [x EXCEPT !.queue = t] \in Observer
    BY <1>0 DEF Observer, Queues
  <2>3. CASE w' = [w EXCEPT ![o] = [[x EXCEPT !.queue = Tail(x.queue)] EXCEPT !.pc = "ensure"]]
             /\ UNCHANGED <<events, exists, mishaps>>
    <3>1. [[x EXCEPT !.queue = Tail(x.queue)] EXCEPT !.pc = "ensure"] \in Observer
      BY <2>1, <2>2 DEF Observer
    <3> QED
      BY <1>8, <1>a, <1>b, <2>3, <3>1 DEF Show
  <2>4. CASE w' = [w EXCEPT ![o] = [[x EXCEPT !.queue = Tail(x.queue)] EXCEPT !.skipped = @ + 1]]
             /\ UNCHANGED <<events, exists, mishaps>>
    <3>1. [[x EXCEPT !.queue = Tail(x.queue)] EXCEPT !.skipped = @ + 1]
            = [x EXCEPT !.queue = Tail(x.queue), !.skipped = x.skipped + 1]
      BY <1>0 DEF Observer
    <3>2. x.skipped + 1 \in Nat
      BY <1>0
    <3>3. [x EXCEPT !.queue = Tail(x.queue), !.skipped = x.skipped + 1] \in Observer
      BY <1>0, <2>1, <3>2 DEF Observer, Queues
    <3> QED
      BY <1>8, <1>a, <1>b, <2>4, <3>1, <3>3 DEF Show
  <2>5. CASE /\ Head(x.queue) # Finished
             /\ w' = [w EXCEPT ![o] = [[x EXCEPT !.queue = Tail(x.queue)]
                                         EXCEPT !.shown = Append(@, Head(x.queue))]]
             /\ IF runtime = "native" THEN UNCHANGED <<events, exists, mishaps>>
                ELSE AppendEvent(Head(x.queue)) /\ Went(AppendCrosses)
    <3>1. Append(x.shown, Head(x.queue)) \in Events
      BY <1>0, <2>1, <2>5, AppendProperties DEF Events
    <3>2. [[x EXCEPT !.queue = Tail(x.queue)] EXCEPT !.shown = Append(@, Head(x.queue))] \in Observer
      BY <1>0, <2>1, <2>2, <3>1 DEF Observer, Events
    <3>3. events' \in Events /\ exists' \in BOOLEAN /\ mishaps' \subseteq {"overlap", "cancel", "crowd"}
      BY <1>b, <2>1, <2>5, Appended, Crossings, Crossing
    <3> QED
      BY <1>8, <1>a, <1>b, <2>5, <3>2, <3>3 DEF Show
  <2> QED
    BY <1>8, <2>3, <2>4, <2>5 DEF Show
<1>9. CASE Parse(o)
  <2>1. CASE w' = [w EXCEPT ![o] = NewObserver]
    BY <1>9, <1>a, <1>b, <2>1, NewType, Crossings, Crossing DEF Parse
  <2>2. CASE w' = [w EXCEPT ![o].pc = "create", ![o].parsed = Lines]
    <3>1. w' = [w EXCEPT ![o] = [x EXCEPT !.pc = "create", !.parsed = Lines]]
      BY <2>2
    <3>2. [x EXCEPT !.pc = "create", !.parsed = Lines] \in Observer
      BY <1>0, LinesType DEF Observer, Events
    <3> QED
      BY <1>9, <1>a, <1>b, <3>1, <3>2, Crossings, Crossing DEF Parse
  <2> QED
    BY <1>9, <2>1, <2>2 DEF Parse
<1>10. CASE CreateLog(o)
  <2>1. w' = [w EXCEPT ![o] = [x EXCEPT !.pc = "write"]] /\ [x EXCEPT !.pc = "write"] \in Observer
    BY <1>0, <1>10 DEF CreateLog, Observer
  <2> QED
    BY <1>10, <1>a, <1>b, <2>1, Ends DEF CreateLog
<1>11. CASE WriteLog(o)
  <2>1. SubSeq(events, Len(x.parsed) + 1, Len(events)) \in Events
    BY <1>0, <1>b, Part DEF Events
  <2>2. events' \in Events
    BY <1>0, <1>11, <2>1, ConcatProperties DEF WriteLog, Events
  <2> QED
    BY <1>11, <1>a, <1>b, <2>2, NewType DEF WriteLog
<1> QED
  BY <1>1, <1>2, <1>3, <1>4, <1>5, <1>6, <1>7, <1>8, <1>9, <1>10, <1>11 DEF Step

\* Each step keeps the types and the position of the readers.
LEMMA NextType == TypeInv /\ [Next]_vars => TypeInv'
<1> SUFFICES ASSUME TypeInv, [Next]_vars PROVE TypeInv'
  OBVIOUS
<1> USE DEF TypeInv
<1>1. CASE NativeEvent
  <2>1. happened + 1 \in Logged
    BY <1>1, Numbers DEF NativeEvent, TypeOK
  <2> QED
    BY <1>1, <2>1, Appended, Crossings, Crossing DEF NativeEvent, TypeOK, Events
<1>2. CASE ClaudeWrites
  BY <1>2 DEF ClaudeWrites, TypeOK
<1>3. CASE AgentEnds
  BY <1>3 DEF AgentEnds, TypeOK
<1>4. CASE Cancel
  BY <1>4, Numbers, Appended, Crossings DEF Cancel, TypeOK, Events
<1>5. CASE UNCHANGED vars
  BY <1>5 DEF vars, TypeOK
<1>6. ASSUME NEW o \in Observers, Step(o) \/ StartWatch(o) \/ StartReplay(o) \/ Interrupt(o)
      PROVE  TypeInv'
  <2>1. UNCHANGED <<runtime, half, happened>>
    BY <1>6 DEF Step, StartWatch, StartReplay, Interrupt, CountCached, Poll, Check, LastRead,
                Show, Parse, CreateLog, WriteLog
  <2> QED
    BY <1>6, <2>1, ObserverType
<1> QED
  BY <1>1, <1>2, <1>3, <1>4, <1>5, <1>6 DEF Next

\* Type correctness: among other things no observer's counts run below what
\* they count.
THEOREM TypeCorrect == Spec => []TypeOK
<1>1. TypeInv => TypeOK
  BY DEF TypeInv
<1> QED
  BY <1>1, InitType, NextType, PTL DEF Spec

-----------------------------------------------------------------------------
(* What is taken, waits and is still to be read *)

Ended(x) == IF x.pc = "drain" THEN 1 ELSE 0
Taken(x) == x.skipped + Len(x.shown)

\* What an observer has read is what it has taken and what waits, in the
\* order of the file; the end of the session comes after all of it.
ReaderInv(x) ==
  /\ x.pc \notin Reading => x.queue = <<>>
  /\ x.pc \in Reading =>
    /\ 2 * (Taken(x) + Len(x.queue) - Ended(x)) = x.offset - x.partial
    /\ x.offset <= 2 * happened + half
    /\ \A i \in 1 .. Len(x.queue) - Ended(x) : x.queue[i] = Taken(x) + i
    /\ x.pc = "drain" =>
         /\ Len(x.queue) > 0 /\ x.queue[Len(x.queue)] = Finished
         /\ x.offset - x.partial = 2 * happened
    /\ x.pc \in {"last", "drain"} => agent = "finished"

\* It takes the cached events first and shows what follows them.
ShownInv(x) ==
  /\ x.pc \in Reading =>
       IF x.cached = NotCounted THEN x.skipped = 0 /\ x.shown = <<>>
       ELSE x.cached <= happened /\ x.skipped <= x.cached
            /\ (x.shown = <<>> \/ x.skipped = x.cached)
  /\ \A i \in 1 .. Len(x.shown) : x.shown[i] = x.cached + i
  /\ x.pc = "ensure" /\ x.cached # NotCounted =>
       agent = "finished" /\ x.cached + Len(x.shown) = happened

\* What it is about to write is no older than what it overwrites.
ParsedInv(x) ==
  x.pc \in {"create", "write"} =>
    /\ \A i \in 1 .. Len(x.parsed) : x.parsed[i] = i
    /\ Len(x.parsed) <= happened
    /\ runtime = "native" => Len(x.parsed) = happened /\ agent \notin {"running", "ended"}

ObserverInv(x) == ReaderInv(x) /\ ShownInv(x) /\ ParsedInv(x)

EventsInv ==
  /\ \A i \in 1 .. Len(events) : events[i] = i
  /\ Len(events) <= happened
  /\ runtime = "native" =>
       Len(events) = happened \/ (Len(events) = 0 /\ \E o \in Observers : w[o].pc = "write")

\* Claude's events reach events.jsonl through one observer at a time, which
\* has appended what it has shown.
ClaudeInv ==
  runtime # "native" =>
    /\ \A o, q \in Observers : w[o].pc # "idle" /\ w[q].pc # "idle" => o = q
    /\ \A o \in Observers :
      /\ w[o].pc \in Reading /\ w[o].cached # NotCounted => Len(events) = w[o].cached + Len(w[o].shown)
      /\ w[o].pc = "write" => events = <<>>

Sound == (\A o \in Observers : ObserverInv(w[o])) /\ EventsInv /\ ClaudeInv
WatchInv == TypeInv /\ (mishaps = {} => Sound)

-----------------------------------------------------------------------------
(* The session's steps *)

\* Positions compare as half lines do.
LEMMA Further ==
  ASSUME NEW k \in Nat, NEW h \in 0 .. 1, NEW m \in Nat, NEW j \in 0 .. 1, NEW n \in Nat,
         2 * k + h <= 2 * m + j, n <= 2 * k + h
  PROVE  n <= 2 * m + j
  OBVIOUS

\* More events do not disturb an observer that is not past the end.
LEMMA MoreEvents ==
  ASSUME TypeInv, NEW x \in Observer, ObserverInv(x), agent = "running", UNCHANGED <<runtime, agent>>,
         happened' \in Nat, half' \in 0 .. 1, happened <= happened',
         2 * happened + half <= 2 * happened' + half',
         runtime = "native" => x.pc \notin {"create", "write"}
  PROVE  ObserverInv(x)'
<1>1. happened \in Nat /\ half \in 0 .. 1
  BY DEF TypeInv, TypeOK
<1>2. ReaderInv(x)'
  <2>1. x.pc \notin {"last", "drain"}
    BY DEF ObserverInv, ReaderInv, Reading
  <2>2. x.offset \in Nat
    BY ObserverFields
  <2>3. x.offset <= 2 * happened + half => x.offset <= 2 * happened' + half'
    BY <1>1, <2>2, Further
  <2> QED
    BY <2>1, <2>3 DEF ObserverInv, ReaderInv, Ended, Taken
<1>3. ShownInv(x)'
  <2>1. x.cached \in Nat
    BY ObserverFields
  <2> QED
    BY <1>1, <2>1 DEF ObserverInv, ShownInv, Reading
<1>4. ParsedInv(x)'
  <2>1. Len(x.parsed) \in Nat
    BY ObserverFields DEF Events
  <2> QED
    BY <1>1, <2>1 DEF ObserverInv, ParsedInv
<1> QED
  BY <1>2, <1>3, <1>4 DEF ObserverInv

\* The native runtime records an event.
LEMMA NativeEventSound == ASSUME TypeInv, Sound, NativeEvent, mishaps' = {} PROVE Sound'
<1>1. \A q \in Observers : w[q].pc \notin {"create", "write"} /\ w[q] \in Observer
  BY DEF NativeEvent, Went, AppendCrosses, Amid, TypeInv, TypeOK
<1>2. happened \in Nat /\ half = 0 /\ happened + 1 \in Logged
  BY Numbers DEF NativeEvent, TypeInv, TypeOK
<1>3. \A q \in Observers : ObserverInv(w[q])'
  <2> SUFFICES ASSUME NEW q \in Observers PROVE ObserverInv(w[q])'
    OBVIOUS
  <2> PICK x : x = w[q]
    OBVIOUS
  <2>1. x \in Observer /\ ObserverInv(x) /\ x.pc \notin {"create", "write"} /\ w'[q] = x
    BY <1>1 DEF Sound, NativeEvent
  <2>2. ObserverInv(x)'
    BY <1>2, <2>1, MoreEvents DEF NativeEvent
  <2> QED
    BY <2>1, <2>2
<1>4. EventsInv'
  <2>1. /\ Len(events) = happened /\ \A i \in 1 .. Len(events) : events[i] = i
    BY <1>1 DEF Sound, EventsInv, NativeEvent
  <2>2. /\ Len(events') = happened + 1 /\ events'[happened + 1] = happened + 1
        /\ \A i \in 1 .. happened : events'[i] = events[i]
    BY <1>2, <2>1, Appended DEF NativeEvent, TypeInv
  <2> QED
    BY <1>2, <2>1, <2>2 DEF EventsInv, NativeEvent
<1>5. ClaudeInv'
  BY DEF ClaudeInv, NativeEvent
<1> QED
  BY <1>3, <1>4, <1>5 DEF Sound

\* Claude writes a line of its transcript, whole or half.
LEMMA ClaudeWritesSound == ASSUME TypeInv, Sound, ClaudeWrites PROVE Sound'
<1>1. /\ happened \in Nat /\ happened' \in Nat /\ half' \in 0 .. 1 /\ happened <= happened'
      /\ 2 * happened + half <= 2 * happened' + half'
  BY DEF ClaudeWrites, TypeInv, TypeOK
<1>2. \A q \in Observers : ObserverInv(w[q])'
  <2> SUFFICES ASSUME NEW q \in Observers PROVE ObserverInv(w[q])'
    OBVIOUS
  <2> PICK x : x = w[q]
    OBVIOUS
  <2>1. x \in Observer /\ ObserverInv(x) /\ w'[q] = x
    BY DEF Sound, ClaudeWrites, TypeInv, TypeOK
  <2>2. ObserverInv(x)'
    BY <1>1, <2>1, MoreEvents DEF ClaudeWrites
  <2> QED
    BY <2>1, <2>2
<1>3. EventsInv'
  <2>1. Len(events) \in Nat
    BY DEF TypeInv, TypeOK
  <2> QED
    BY <1>1, <2>1 DEF Sound, EventsInv, ClaudeWrites
<1>4. ClaudeInv'
  BY DEF Sound, ClaudeInv, ClaudeWrites, NotCounted
<1> QED
  BY <1>2, <1>3, <1>4 DEF Sound

\* The agent ends.
LEMMA AgentEndsSound == ASSUME TypeInv, Sound, AgentEnds PROVE Sound'
<1>1. \A q \in Observers : ObserverInv(w[q])'
  <2> SUFFICES ASSUME NEW q \in Observers PROVE ObserverInv(w[q])'
    OBVIOUS
  <2> PICK x : x = w[q]
    OBVIOUS
  <2>1. ObserverInv(x) /\ w'[q] = x
    BY DEF Sound, AgentEnds
  <2>2. ReaderInv(x)' /\ ShownInv(x)' /\ ParsedInv(x)'
    <3>1. ReaderInv(x)'
      BY <2>1 DEF ObserverInv, ReaderInv, Ended, Taken, AgentEnds
    <3>2. ShownInv(x)'
      BY <2>1 DEF ObserverInv, ShownInv, AgentEnds
    <3>3. ParsedInv(x)'
      BY <2>1 DEF ObserverInv, ParsedInv, AgentEnds
    <3> QED
      BY <3>1, <3>2, <3>3
  <2> QED
    BY <2>1, <2>2 DEF ObserverInv
<1>2. EventsInv' /\ ClaudeInv'
  BY DEF Sound, EventsInv, ClaudeInv, AgentEnds
<1> QED
  BY <1>1, <1>2 DEF Sound

-----------------------------------------------------------------------------
(* The observers' steps *)

\* An observer's step leaves the others as they are.
LEMMA OthersSound ==
  ASSUME TypeInv, Sound, NEW o \in Observers, NEW y, w' = [w EXCEPT ![o] = y],
         UNCHANGED <<runtime, agent, happened, half>>, ObserverInv(y)
  PROVE  \A q \in Observers : ObserverInv(w[q])'
<1>1. ASSUME NEW x, ObserverInv(x) PROVE ObserverInv(x)'
  <2>1. ReaderInv(x)'
    BY <1>1 DEF ObserverInv, ReaderInv, Ended, Taken
  <2>2. ShownInv(x)' /\ ParsedInv(x)'
    BY <1>1 DEF ObserverInv, ShownInv, ParsedInv, NotCounted
  <2> QED
    BY <2>1, <2>2 DEF ObserverInv
<1> SUFFICES ASSUME NEW q \in Observers PROVE ObserverInv(w[q])'
  OBVIOUS
<1> PICK x : x = w'[q]
  OBVIOUS
<1>2. x = y \/ x = w[q]
  BY Moved DEF TypeInv
<1>3. ObserverInv(x)
  BY <1>2 DEF Sound
<1>4. ObserverInv(x)'
  BY <1>1, <1>3
<1> QED
  BY <1>4

\* One that reads events.jsonl at most does not disturb it.
LEMMA EventsStay ==
  ASSUME TypeInv, Sound, NEW o \in Observers, NEW y, w' = [w EXCEPT ![o] = y], w[o].pc # "write",
         UNCHANGED <<runtime, happened, events>>
  PROVE  EventsInv'
<1>1. \A q \in Observers : w[q].pc = "write" => w'[q].pc = "write"
  BY Moved DEF TypeInv
<1> QED
  BY <1>1 DEF Sound, EventsInv

\* For Claude the others are idle.
LEMMA OneOfClaude ==
  ASSUME TypeInv, Sound, NEW o \in Observers, NEW y, w' = [w EXCEPT ![o] = y], UNCHANGED runtime,
         w[o].pc # "idle" \/ Joins(o) = {},
         runtime # "native" =>
           /\ y.pc \in Reading /\ y.cached # NotCounted => Len(events') = y.cached + Len(y.shown)
           /\ y.pc = "write" => events' = <<>>
  PROVE  ClaudeInv'
<1> SUFFICES ASSUME runtime # "native" PROVE ClaudeInv'
  BY DEF ClaudeInv
<1>1. runtime = "claude"
  BY DEF TypeInv, TypeOK
<1>2. \A q \in Observers \ {o} : w[q].pc = "idle" /\ w'[q] = w[q]
  <2>1. \A q \in Observers \ {o} : w[q].pc = "idle"
    BY <1>1 DEF Joins, Sound, ClaudeInv
  <2> QED
    BY <2>1, Moved DEF TypeInv
<1>3. w'[o] = y
  BY Moved DEF TypeInv
<1> QED
  BY <1>2, <1>3 DEF ClaudeInv, Reading, NotCounted

\* Nothing is known of a new observer yet, nor of an idle one.
LEMMA NewSound ==
  ASSUME TypeInv, NEW p \in {"idle", "poll", "ensure"}
  PROVE  ObserverInv([NewObserver EXCEPT !.pc = p])
<1>1. happened \in Nat /\ half \in 0 .. 1
  BY DEF TypeInv, TypeOK
<1> PICK y : y = [NewObserver EXCEPT !.pc = p]
  OBVIOUS
<1>2. y.pc = p /\ y.offset = 0 /\ y.partial = 0 /\ y.queue = <<>> /\ y.cached = NotCounted
      /\ y.skipped = 0 /\ y.shown = <<>>
  BY DEF NewObserver
<1>3. Len(<<>>) = 0
  BY Ends
<1>4. ReaderInv(y)
  <2>1. Ended(y) = 0 /\ Taken(y) = 0 /\ Len(y.queue) = 0
    BY <1>2, <1>3 DEF Ended, Taken
  <2>2. 2 * (0 + 0 - 0) = 0 - 0 /\ 0 <= 2 * happened + half /\ 1 .. 0 - 0 = {}
    BY <1>1
  <2> QED
    BY <1>2, <2>1, <2>2 DEF ReaderInv, Reading
<1>5. ShownInv(y) /\ ParsedInv(y)
  BY <1>2, <1>3 DEF ShownInv, ParsedInv, Reading
<1> QED
  BY <1>4, <1>5 DEF ObserverInv

\* An observer begins.
LEMMA BeginsSound ==
  ASSUME TypeInv, Sound, NEW o \in Observers, StartWatch(o) \/ StartReplay(o), mishaps' = {}
  PROVE  Sound'
<1>1. PICK p \in {"poll", "ensure"} : w' = [w EXCEPT ![o] = [NewObserver EXCEPT !.pc = p]]
  BY DEF StartWatch, StartReplay, Begin
<1> PICK y : y = [NewObserver EXCEPT !.pc = p]
  OBVIOUS
<1>2. y.pc = p /\ y.cached = NotCounted
  BY DEF NewObserver
<1>3. Joins(o) = {} /\ w[o].pc = "idle" /\ UNCHANGED <<runtime, agent, happened, half, events>>
  BY DEF StartWatch, StartReplay, Begin, Went
<1>4. \A q \in Observers : ObserverInv(w[q])'
  BY <1>1, <1>3, NewSound, OthersSound
<1>5. EventsInv'
  BY <1>1, <1>3, EventsStay
<1>6. ClaudeInv'
  BY <1>1, <1>2, <1>3, OneOfClaude
<1> QED
  BY <1>4, <1>5, <1>6 DEF Sound

\* An observer that is not writing goes back to the start.
LEMMA IdleAgain ==
  ASSUME TypeInv, Sound, NEW o \in Observers, w' = [w EXCEPT ![o] = NewObserver],
         w[o].pc \notin {"idle", "write"}, UNCHANGED <<runtime, agent, happened, half, events>>
  PROVE  Sound'
<1> PICK y : y = [NewObserver EXCEPT !.pc = "idle"]
  OBVIOUS
<1>1. y = NewObserver /\ y.pc = "idle"
  BY DEF NewObserver
<1>2. \A q \in Observers : ObserverInv(w[q])'
  BY <1>1, NewSound, OthersSound
<1>3. EventsInv'
  BY <1>1, EventsStay
<1>4. ClaudeInv'
  BY <1>1, OneOfClaude DEF Reading
<1> QED
  BY <1>2, <1>3, <1>4 DEF Sound

\* An observer is interrupted.
LEMMA InterruptSound ==
  ASSUME TypeInv, Sound, NEW o \in Observers, Interrupt(o), mishaps' = {}
  PROVE  Sound'
  BY IdleAgain DEF Interrupt, Went

\* A watch counts the events that are in the log when it begins.
LEMMA CountCachedSound ==
  ASSUME TypeInv, Sound, NEW o \in Observers, CountCached(o), mishaps' = {}
  PROVE  Sound'
<1> PICK x : x = w[o]
  OBVIOUS
<1> PICK y : y = [x EXCEPT !.cached = Len(events)]
  OBVIOUS
<1>0. x \in Observer /\ ObserverInv(x) /\ x.pc \in Reading /\ x.cached = NotCounted
  BY DEF Sound, CountCached, Reading, TypeInv, TypeOK
<1>1. y.cached = Len(events) /\ y.pc = x.pc /\ y.offset = x.offset /\ y.partial = x.partial
      /\ y.queue = x.queue /\ y.skipped = x.skipped /\ y.shown = x.shown
  BY <1>0 DEF Observer
<1>2. w' = [w EXCEPT ![o] = y] /\ UNCHANGED <<runtime, agent, happened, half, events>>
  BY DEF CountCached
<1>3. x.skipped = 0 /\ x.shown = <<>> /\ Len(x.shown) = 0
  BY <1>0, Ends DEF ObserverInv, ShownInv
<1>4. ObserverInv(y)
  <2>1. ReaderInv(y)
    BY <1>0, <1>1 DEF ObserverInv, ReaderInv, Taken, Ended
  <2>2. ShownInv(y)
    <3>1. Len(events) \in Nat /\ Len(events) <= happened
      BY DEF Sound, EventsInv, TypeInv, TypeOK
    <3> QED
      BY <1>0, <1>1, <1>3, <3>1 DEF ShownInv, Reading
  <2>3. ParsedInv(y)
    BY <1>0, <1>1 DEF ParsedInv, Reading
  <2> QED
    BY <2>1, <2>2, <2>3 DEF ObserverInv
<1>5. \A q \in Observers : ObserverInv(w[q])'
  BY <1>2, <1>4, OthersSound
<1>6. EventsInv'
  BY <1>0, <1>2, EventsStay DEF Reading
<1>7. ClaudeInv'
  <2>1. Len(events') = y.cached + Len(y.shown)
    <3>1. Len(events) \in Nat
      BY DEF TypeInv, TypeOK
    <3>2. events' = events
      BY <1>2
    <3>3. Len(events) = Len(events) + 0
      BY <3>1
    <3> QED
      BY <1>1, <1>3, <3>2, <3>3, Zenon
  <2>2. w[o].pc # "idle" /\ y.pc # "write" /\ UNCHANGED runtime
    BY <1>0, <1>1, <1>2 DEF Reading
  <2> QED
    BY <1>2, <2>1, <2>2, OneOfClaude
<1> QED
  BY <1>5, <1>6, <1>7 DEF Sound

\* A watch looks whether the session is over.
LEMMA CheckSound == ASSUME TypeInv, Sound, NEW o \in Observers, Check(o) PROVE Sound'
<1> PICK x : x = w[o]
  OBVIOUS
<1>1. PICK p \in {"last", "poll"} : w' = [w EXCEPT ![o] = [x EXCEPT !.pc = p]]
                                   /\ (p = "last" => agent = "finished")
  BY DEF Check, OutputThere
<1> PICK y : y = [x EXCEPT !.pc = p]
  OBVIOUS
<1>0. x \in Observer /\ ObserverInv(x) /\ x.pc = "check"
  BY DEF Sound, Check, TypeInv, TypeOK
<1>2. y.pc = p /\ y.cached = x.cached /\ y.offset = x.offset /\ y.partial = x.partial
      /\ y.queue = x.queue /\ y.skipped = x.skipped /\ y.shown = x.shown
  BY <1>0 DEF Observer
<1>3. w' = [w EXCEPT ![o] = y] /\ UNCHANGED <<runtime, agent, happened, half, events>>
  BY <1>1 DEF Check
<1>4. ObserverInv(y)
  <2>1. ReaderInv(y)
    BY ZenonT(60), <1>0, <1>1, <1>2 DEF ObserverInv, ReaderInv, Taken, Ended, Reading
  <2>2. ShownInv(y) /\ ParsedInv(y)
    BY <1>0, <1>1, <1>2 DEF ObserverInv, ShownInv, ParsedInv, Reading
  <2> QED
    BY <2>1, <2>2 DEF ObserverInv
<1>5. \A q \in Observers : ObserverInv(w[q])'
  BY <1>3, <1>4, OthersSound
<1>6. EventsInv'
  BY <1>0, <1>3, EventsStay
<1>7. ClaudeInv'
  <2>1. runtime # "native" /\ x.cached # NotCounted => Len(events) = x.cached + Len(x.shown)
    BY <1>0 DEF Sound, ClaudeInv, Reading
  <2> QED
    BY ZenonT(60), <1>0, <1>2, <1>3, <2>1, OneOfClaude
<1> QED
  BY <1>5, <1>6, <1>7 DEF Sound
\* Where an observer is in the file it reads.
LEMMA Counted ==
  ASSUME NEW k \in Nat, NEW n \in Nat, NEW p \in 0 .. 1, NEW m \in Nat, NEW h \in 0 .. 1,
         2 * k = n - p, n <= 2 * m + h
  PROVE  k <= m /\ (n - p + 1) \div 2 = k /\ (2 * m + h <= n => n - p = 2 * m)
<1>1. n = 2 * k + p
  OBVIOUS
<1> QED
  BY <1>1

\* Where a reader is, in lines of the file and in bytes.
LEMMA Position ==
  ASSUME TypeInv, Sound, NEW o \in Observers, NEW x, x = w[o], x.pc \in {"poll", "check", "last"}
  PROVE  /\ Taken(x) \in Nat /\ Len(x.queue) \in Nat /\ x.offset \in Nat /\ x.partial \in 0 .. 1
         /\ x \in Observer /\ x.queue \in Queues
         /\ 2 * (Taken(x) + Len(x.queue)) = x.offset - x.partial
         /\ x.offset <= 2 * happened + half
         /\ \A i \in 1 .. Len(x.queue) : x.queue[i] = Taken(x) + i
<1>1. x \in Observer /\ ReaderInv(x)
  BY DEF Sound, ObserverInv, TypeInv, TypeOK
<1>2. x.skipped \in Nat /\ x.shown \in Events /\ x.queue \in Queues /\ x.offset \in Nat
      /\ x.partial \in 0 .. 1
  BY <1>1, ObserverFields
<1>3. Len(x.shown) \in Nat /\ Len(x.queue) \in Nat
  BY <1>2 DEF Events, Queues
<1>4. Taken(x) \in Nat
  BY <1>2, <1>3 DEF Taken
<1>5. Ended(x) = 0 /\ x.pc \in Reading
  BY DEF Ended, Reading
<1> PICK k \in Nat : k = Taken(x)
  BY <1>4
<1> PICK l \in Nat : l = Len(x.queue)
  BY <1>3
<1>6. 2 * (k + l - 0) = x.offset - x.partial /\ x.offset <= 2 * happened + half
      /\ \A i \in 1 .. l - 0 : x.queue[i] = k + i
  BY <1>1, <1>5 DEF ReaderInv
<1>7. k + l - 0 = k + l /\ l - 0 = l
  OBVIOUS
<1> QED
  BY <1>1, <1>2, <1>3, <1>4, <1>6, <1>7

\* The lines that a read takes from the file are those that follow what was
\* taken before.
LEMMA ReadLines ==
  ASSUME TypeInv, Sound, NEW o \in Observers, w[o].pc \in {"poll", "last"}, Size > w[o].offset,
         NEW k \in Nat, k = Taken(w[o]) + Len(w[o].queue), NEW m \in Nat, m = happened
  PROVE  /\ k <= m /\ Len(NewLines(o)) = m - k
         /\ \A i \in 1 .. m - k : NewLines(o)[i] = k + i
         /\ Size = 2 * m + half
<1>0. PICK x : x = w[o]
  OBVIOUS
<1>1. /\ x.offset \in Nat /\ x.partial \in 0 .. 1 /\ 2 * k = x.offset - x.partial
      /\ x.offset <= 2 * m + half
  BY <1>0, Position
<1>2. half \in 0 .. 1 /\ (runtime = "native" => half = 0)
  BY DEF TypeInv, TypeOK
<1>3. k <= m /\ (Ahead(o) + 1) \div 2 = k
  <2>1. PICK n \in Nat, p \in 0 .. 1, h \in 0 .. 1 : n = x.offset /\ p = x.partial /\ h = half
    BY <1>1, <1>2
  <2>2. 2 * k = n - p /\ n <= 2 * m + h
    BY <1>1, <2>1, Zenon
  <2>3. k <= m /\ (n - p + 1) \div 2 = k
    BY <2>2, Counted
  <2> QED
    BY <1>0, <2>1, <2>3, Zenon DEF Ahead
<1>4. Len(Lines) = m /\ Size = 2 * m + half
  <2>1. CASE runtime = "native"
    <3>1. Lines = events /\ Size = 2 * Len(events) + 0
      BY <2>1 DEF Lines, Size
    <3>2. Len(events) # 0
      BY <1>0, <1>1, <3>1
    <3>3. Len(events) = m
      BY <2>1, <3>2 DEF Sound, EventsInv
    <3> QED
      BY <1>2, <2>1, <3>1, <3>3
  <2>2. CASE runtime # "native"
    BY <2>2, LinesType DEF Size, TypeInv
  <2> QED
    BY <2>1, <2>2
<1>5. \A i \in 1 .. m : Lines[i] = i
  <2>1. CASE runtime = "native"
    BY <1>4, <2>1 DEF Lines, Sound, EventsInv
  <2>2. CASE runtime # "native"
    BY <1>4, <2>2, LinesType DEF TypeInv
  <2> QED
    BY <2>1, <2>2
<1>6. NewLines(o) = SubSeq(Lines, k + 1, m)
  BY <1>3, <1>4, Zenon DEF NewLines
<1>7. Lines \in Events
  BY LinesType DEF TypeInv
<1>8. /\ Len(SubSeq(Lines, k + 1, m)) = m - k
      /\ \A i \in 1 .. m - k : SubSeq(Lines, k + 1, m)[i] = Lines[k + i]
  <2>1. PICK s \in Events : s = Lines
    BY <1>7
  <2>2. m = Len(s)
    BY <1>4, <2>1
  <2>3. Len(SubSeq(s, k + 1, m)) = m - k /\ \A i \in 1 .. m - k : SubSeq(s, k + 1, m)[i] = s[k + i]
    <3>1. k <= m
      BY <1>3
    <3>2. s \in Events /\ k \in Nat /\ m \in Nat
      BY <1>3
    <3>3. Len(SubSeq(s, k + 1, m)) = m - k
      BY <2>2, <3>1, <3>2, Rest
    <3>4. \A i \in 1 .. m - k : SubSeq(s, k + 1, m)[i] = s[k + i]
      BY <2>2, <3>1, <3>2, Rest
    <3> QED
      BY <3>3, <3>4
  <2> QED
    BY <2>1, <2>3, Zenon
<1>9. \A i \in 1 .. m - k : k + i \in 1 .. m
  BY <1>3
<1> QED
  BY <1>3, <1>4, <1>5, <1>6, <1>8, <1>9

\* What waits after a read of x that leaves y.
ReadTo(x, y, t) ==
  /\ y.pc = x.pc /\ y.cached = x.cached /\ y.skipped = x.skipped /\ y.shown = x.shown
  /\ 2 * (Taken(y) + (Len(y.queue) - Len(t))) = y.offset - y.partial
  /\ y.offset <= 2 * happened + half
  /\ \A i \in 1 .. Len(y.queue) - Len(t) : y.queue[i] = Taken(y) + i
  /\ Len(y.queue) >= Len(t)
  /\ t # <<>> => y.queue[Len(y.queue)] = Finished
  /\ (\A q \in Observers : w[q].pc # "write") => y.offset - y.partial = 2 * happened

\* There is nothing to read.
LEMMA ReadNothing ==
  ASSUME TypeInv, Sound, NEW o \in Observers, NEW x, x = w[o], x.pc \in {"poll", "last"},
         NEW t \in {<<>>, <<Finished>>}, Size <= x.offset
  PROVE  ReadTo(x, Read(o, t), t)
<1>1. PICK k \in Nat, l \in Nat, n \in Nat, p \in 0 .. 1 :
        k = Taken(x) /\ l = Len(x.queue) /\ n = x.offset /\ p = x.partial
  BY Position
<1>2. PICK m \in Nat, h \in 0 .. 1 : m = happened /\ h = half
  BY DEF TypeInv, TypeOK
<1>3. PICK lt \in 0 .. 1 : lt = Len(t) /\ (t # <<>> => lt = 1 /\ t[1] = Finished)
  BY Ends
<1>4. x \in Observer /\ x.queue \in Queues /\ t \in Queues /\ 2 * (k + l) = n - p /\ n <= 2 * m + h
      /\ \A i \in 1 .. l : x.queue[i] = k + i
  BY ZenonT(60), <1>1, <1>2, Position, Ends
<1>5. PICK y : y = Read(o, t)
  OBVIOUS
<1>6. y = [x EXCEPT !.queue = x.queue \o t]
  BY <1>5 DEF Read
<1>7. /\ y.pc = x.pc /\ y.cached = x.cached /\ y.skipped = x.skipped /\ y.shown = x.shown
      /\ y.queue = x.queue \o t /\ y.offset = n /\ y.partial = p
  BY <1>1, <1>4, <1>6 DEF Observer
<1>8. Taken(y) = k
  BY <1>1, <1>7 DEF Taken
<1>9. /\ Len(y.queue) = l + lt
      /\ \A i \in 1 .. l : y.queue[i] = x.queue[i]
      /\ \A i \in 1 .. lt : y.queue[l + i] = t[i]
  <2>1. PICK q \in Queues : q = x.queue
    BY <1>4
  <2>2. <<>> \in Events
    BY Ends
  <2>3. Len(q \o t) = Len(q) + Len(t)
    BY <1>4, <2>2, Joined
  <2>4. \A i \in 1 .. Len(q) : (q \o t)[i] = q[i]
    BY <1>4, <2>2, Joined
  <2>5. \A i \in 1 .. Len(t) : (q \o t)[Len(q) + i] = t[i]
    BY <1>4, <2>2, Joined
  <2>6. l = Len(q) /\ lt = Len(t) /\ y.queue = q \o t
    BY <1>1, <1>3, <1>7, <2>1
  <2> QED
    BY <2>1, <2>3, <2>4, <2>5, <2>6
<1>10. l + lt - lt = l /\ l + lt >= lt
  OBVIOUS
<1>11. t # <<>> => y.queue[Len(y.queue)] = Finished
  <2> SUFFICES ASSUME t # <<>> PROVE y.queue[Len(y.queue)] = Finished
    OBVIOUS
  <2>1. lt = 1 /\ t[1] = Finished
    BY <1>3
  <2>2. y.queue[l + 1] = t[1]
    BY <1>9, <2>1
  <2>3. Len(y.queue) = l + 1
    BY <1>9, <2>1
  <2> QED
    BY <2>1, <2>2, <2>3, Zenon
<1>12. \A i \in 1 .. l : y.queue[i] = k + i
  BY <1>4, <1>9
<1>13. (\A q \in Observers : w[q].pc # "write") => n - p = 2 * m
  <2> SUFFICES ASSUME \A q \in Observers : w[q].pc # "write" PROVE n - p = 2 * m
    OBVIOUS
  <2>1. Size = 2 * m + h
    <3>1. CASE runtime = "native"
      <4>1. Len(events) = m /\ h = 0
        BY <1>2, <3>1 DEF Sound, EventsInv, TypeInv, TypeOK
      <4>2. Size = 2 * Len(events) + 0
        BY <3>1 DEF Size, Lines
      <4> QED
        BY <4>1, <4>2
    <3>2. CASE runtime # "native"
      BY <1>2, <3>2, LinesType DEF Size, TypeInv
    <3> QED
      BY <3>1, <3>2
  <2>2. 2 * m + h <= n
    BY <1>1, <2>1
  <2> PICK j \in Nat : j = k + l
    OBVIOUS
  <2>3. 2 * j = n - p /\ n <= 2 * m + h
    BY <1>4
  <2> QED
    BY <2>2, <2>3, Counted
<1>14. 2 * (Taken(y) + (Len(y.queue) - Len(t))) = y.offset - y.partial
  BY <1>3, <1>4, <1>7, <1>8, <1>9, <1>10
<1>15. y.offset <= 2 * happened + half
  BY <1>2, <1>4, <1>7
<1>16. \A i \in 1 .. Len(y.queue) - Len(t) : y.queue[i] = Taken(y) + i
  BY <1>3, <1>8, <1>9, <1>10, <1>12
<1>17. Len(y.queue) >= Len(t)
  BY <1>3, <1>9, <1>10
<1>18. (\A q \in Observers : w[q].pc # "write") => y.offset - y.partial = 2 * happened
  BY <1>2, <1>7, <1>13
<1> QED
  BY <1>5, <1>7, <1>11, <1>14, <1>15, <1>16, <1>17, <1>18 DEF ReadTo

\* There is something to read.
LEMMA ReadSome ==
  ASSUME TypeInv, Sound, NEW o \in Observers, NEW x, x = w[o], x.pc \in {"poll", "last"},
         NEW t \in {<<>>, <<Finished>>}, Size > x.offset
  PROVE  ReadTo(x, Read(o, t), t)
<1>1. PICK k \in Nat, l \in Nat : k = Taken(x) /\ l = Len(x.queue)
  BY Position
<1>2. PICK m \in Nat, h \in 0 .. 1 : m = happened /\ h = half
  BY DEF TypeInv, TypeOK
<1>3. PICK lt \in 0 .. 1 : lt = Len(t) /\ (t # <<>> => lt = 1 /\ t[1] = Finished)
  BY Ends
<1>4. x \in Observer /\ x.queue \in Queues /\ t \in Queues /\ x.offset \in Nat
      /\ \A i \in 1 .. l : x.queue[i] = k + i
  BY <1>1, Position, Ends
<1>5. PICK y : y = Read(o, t)
  OBVIOUS
<1>6. PICK s \in Events : s = NewLines(o)
  BY ReadType, Ends DEF TypeInv
<1>7. PICK j \in Nat : j = k + l
  OBVIOUS
<1>8. /\ j <= m /\ Len(s) = m - j /\ Size = 2 * m + h
      /\ \A i \in 1 .. m - j : s[i] = j + i
  <2>1. j = Taken(w[o]) + Len(w[o].queue) /\ w[o].pc \in {"poll", "last"} /\ Size > w[o].offset
    BY <1>1, <1>7
  <2>2. m = happened /\ s = NewLines(o)
    BY <1>2, <1>6
  <2>3. j <= m
    BY <2>1, <2>2, ReadLines
  <2>4. Len(s) = m - j
    BY <2>1, <2>2, ReadLines
  <2>5. Size = 2 * m + h
    BY <1>2, <2>1, <2>2, ReadLines
  <2>6. \A i \in 1 .. m - j : s[i] = j + i
    BY <2>1, <2>2, ReadLines
  <2> QED
    BY <2>3, <2>4, <2>5, <2>6
<1>9. PICK ls \in Nat : ls = m - j
  BY <1>8
<1>10. ~(Size <= x.offset)
  BY <1>4, LinesType DEF TypeInv
<1>11. y = [x EXCEPT !.queue = x.queue \o s \o t, !.offset = Size, !.partial = Size % 2]
  BY <1>5, <1>6, <1>10 DEF Read
<1>12. /\ y.pc = x.pc /\ y.cached = x.cached /\ y.skipped = x.skipped /\ y.shown = x.shown
       /\ y.queue = x.queue \o s \o t /\ y.offset = Size /\ y.partial = Size % 2
  BY <1>4, <1>11 DEF Observer
<1>13. y.offset = 2 * m + h /\ y.partial = h
  <2>1. (2 * m + h) % 2 = h
    BY Halves
  <2> QED
    BY <1>8, <1>12, <2>1
<1>14. Taken(y) = k
  BY <1>1, <1>12 DEF Taken
<1>15. /\ Len(y.queue) = l + ls + lt
       /\ \A i \in 1 .. l : y.queue[i] = x.queue[i]
       /\ \A i \in 1 .. ls : y.queue[l + i] = s[i]
       /\ \A i \in 1 .. lt : y.queue[l + ls + i] = t[i]
  <2>1. PICK q \in Queues : q = x.queue
    BY <1>4
  <2>2. t \in Queues
    BY <1>4
  <2>3. Len(q \o s \o t) = Len(q) + Len(s) + Len(t)
    BY <2>2, Joined
  <2>4. \A i \in 1 .. Len(q) : (q \o s \o t)[i] = q[i]
    BY <2>2, Joined
  <2>5. \A i \in 1 .. Len(s) : (q \o s \o t)[Len(q) + i] = s[i]
    BY <2>2, Joined
  <2>6. \A i \in 1 .. Len(t) : (q \o s \o t)[Len(q) + Len(s) + i] = t[i]
    BY <2>2, Joined
  <2>7. l = Len(q) /\ ls = Len(s) /\ lt = Len(t) /\ y.queue = q \o s \o t
    BY <1>1, <1>3, <1>8, <1>9, <1>12, <2>1
  <2> QED
    BY <2>1, <2>3, <2>4, <2>5, <2>6, <2>7
<1>16. l + ls + lt - lt = l + ls /\ l + ls + lt >= lt /\ k + (l + ls) = m
  BY <1>7, <1>9
<1>17. t # <<>> => y.queue[Len(y.queue)] = Finished
  <2> SUFFICES ASSUME t # <<>> PROVE y.queue[Len(y.queue)] = Finished
    OBVIOUS
  <2>1. lt = 1 /\ t[1] = Finished
    BY <1>3
  <2>2. y.queue[l + ls + 1] = t[1]
    BY <1>15, <2>1
  <2>3. Len(y.queue) = l + ls + 1
    BY <1>15, <2>1
  <2> QED
    BY <2>1, <2>2, <2>3, Zenon
<1>18. ASSUME NEW i \in 1 .. l + ls PROVE y.queue[i] = k + i
  <2>1. CASE i <= l
    BY <1>4, <1>15, <2>1
  <2>2. CASE ~(i <= l)
    <3>1. PICK e \in 1 .. ls : i = l + e
      <4>1. i - l \in 1 .. ls /\ i = l + (i - l)
        BY <2>2
      <4> QED
        BY <4>1
    <3>2. y.queue[l + e] = s[e]
      BY <1>15
    <3>3. s[e] = j + e
      BY <1>8, <1>9
    <3>4. j + e = k + (l + e)
      BY <1>7
    <3> QED
      BY <3>1, <3>2, <3>3, <3>4
  <2> QED
    BY <2>1, <2>2
<1>19. Len(y.queue) - Len(t) = l + ls
  BY <1>3, <1>15, <1>16
<1>20. 2 * (Taken(y) + (Len(y.queue) - Len(t))) = y.offset - y.partial
       /\ y.offset - y.partial = 2 * happened
  <2>1. 2 * m + h - h = 2 * m
    OBVIOUS
  <2> QED
    BY <1>2, <1>13, <1>14, <1>16, <1>19, <2>1
<1>21. y.offset <= 2 * happened + half
  BY <1>2, <1>13
<1>22. \A i \in 1 .. Len(y.queue) - Len(t) : y.queue[i] = Taken(y) + i
  BY <1>14, <1>18, <1>19
<1>23. Len(y.queue) >= Len(t)
  BY <1>3, <1>15, <1>16
<1> QED
  BY <1>5, <1>12, <1>17, <1>20, <1>21, <1>22, <1>23 DEF ReadTo

\* Whatever it reads, a reader is at the line it has read to.
LEMMA AnyRead ==
  ASSUME TypeInv, Sound, NEW o \in Observers, NEW x, x = w[o], x.pc \in {"poll", "last"},
         NEW t \in {<<>>, <<Finished>>}
  PROVE  ReadTo(x, Read(o, t), t)
<1>1. x.offset \in Nat /\ Size \in Nat
  BY Position, LinesType DEF TypeInv
<1> QED
  BY <1>1, ReadNothing, ReadSome

\* A read that goes on to p.
LEMMA ReadSound ==
  ASSUME TypeInv, Sound, NEW o \in Observers, w[o].pc \in {"poll", "last"},
         NEW t \in {<<>>, <<Finished>>}, NEW p,
         \/ p = "check" /\ t = <<>>
         \/ p = "drain" /\ t = <<Finished>> /\ w[o].pc = "last" /\ \A q \in Observers : w[q].pc # "write",
         w' = [w EXCEPT ![o] = [Read(o, t) EXCEPT !.pc = p]],
         UNCHANGED <<runtime, agent, happened, half, events>>
  PROVE  Sound'
<1>x. PICK x : x = w[o]
  OBVIOUS
<1>z. PICK z : z = Read(o, t)
  OBVIOUS
<1>1. x \in Observer /\ ObserverInv(x) /\ x.pc \in {"poll", "last"} /\ x.pc \in Reading /\ z \in Observer
  <2>1. t \in Queues
    BY Ends
  <2> QED
    BY <1>x, <1>z, <2>1, ReadType DEF Sound, TypeInv, TypeOK, Reading
<1>y. PICK y : y = [z EXCEPT !.pc = p]
  OBVIOUS
<1>2. /\ y.pc = p /\ y.cached = z.cached /\ y.skipped = z.skipped /\ y.shown = z.shown
      /\ y.queue = z.queue /\ y.offset = z.offset /\ y.partial = z.partial
  BY <1>1, <1>y DEF Observer
<1>3. ReadTo(x, z, t)
  BY <1>1, <1>x, <1>z, AnyRead
<1>4. y.cached = x.cached /\ y.skipped = x.skipped /\ y.shown = x.shown /\ y.pc \in Reading
  BY <1>2, <1>3 DEF ReadTo, Reading
<1>5. Ended(y) = Len(t) /\ Taken(y) = Taken(z)
  BY <1>2, Ends DEF Ended, Taken
<1>6. /\ Taken(z) \in Nat /\ Len(z.queue) \in Nat /\ Len(t) \in Nat
  BY <1>1, ObserverFields, Ends DEF Taken, Events, Queues
<1>7. Taken(z) + Len(z.queue) - Len(t) = Taken(z) + (Len(z.queue) - Len(t))
  BY <1>6
<1>8. ReaderInv(y)
  <2>1. 2 * (Taken(y) + Len(y.queue) - Ended(y)) = y.offset - y.partial
    BY <1>2, <1>3, <1>5, <1>7 DEF ReadTo
  <2>2. y.offset <= 2 * happened + half
    BY <1>2, <1>3 DEF ReadTo
  <2>3. \A i \in 1 .. Len(y.queue) - Ended(y) : y.queue[i] = Taken(y) + i
    BY <1>2, <1>3, <1>5 DEF ReadTo
  <2>4. ASSUME y.pc = "drain"
        PROVE  /\ Len(y.queue) > 0 /\ y.queue[Len(y.queue)] = Finished
               /\ y.offset - y.partial = 2 * happened
    <3>1. t = <<Finished>> /\ \A q \in Observers : w[q].pc # "write"
      BY <1>2, <2>4
    <3>2. Len(t) = 1 /\ t # <<>>
      BY <3>1, Ends
    <3>3. Len(z.queue) >= Len(t) /\ z.queue[Len(z.queue)] = Finished
      BY <1>3, <3>2 DEF ReadTo
    <3>4. z.offset - z.partial = 2 * happened
      BY <1>3, <3>1 DEF ReadTo
    <3> QED
      BY <1>2, <1>6, <3>2, <3>3, <3>4
  <2>5. y.pc \in {"last", "drain"} => agent = "finished"
    BY <1>1, <1>2, <1>x DEF ObserverInv, ReaderInv
  <2> QED
    BY <1>4, <2>1, <2>2, <2>3, <2>4, <2>5 DEF ReaderInv
<1>9. ShownInv(y)
  BY <1>1, <1>2, <1>4 DEF ObserverInv, ShownInv
<1>10. ParsedInv(y)
  BY <1>2 DEF ParsedInv
<1>11. w' = [w EXCEPT ![o] = y]
  BY <1>y, <1>z
<1>12. \A q \in Observers : ObserverInv(w[q])'
  BY <1>8, <1>9, <1>10, <1>11, OthersSound DEF ObserverInv
<1>13. EventsInv'
  BY <1>1, <1>11, <1>x, EventsStay
<1>14. ClaudeInv'
  <2>1. runtime # "native" /\ x.cached # NotCounted => Len(events) = x.cached + Len(x.shown)
    BY <1>1, <1>x DEF Sound, ClaudeInv
  <2>2. w[o].pc # "idle" /\ y.pc # "write" /\ UNCHANGED runtime /\ events' = events
    BY <1>1, <1>2, <1>x
  <2> QED
    <3>1. runtime # "native" /\ y.cached # NotCounted => Len(events') = y.cached + Len(y.shown)
      BY <1>4, <2>1, <2>2, Zenon
    <3> QED
      BY <1>11, <2>2, <3>1, OneOfClaude
<1> QED
  BY <1>12, <1>13, <1>14 DEF Sound

\* A watch reads what is new.
LEMMA PollSound == ASSUME TypeInv, Sound, NEW o \in Observers, Poll(o) PROVE Sound'
  BY ReadSound DEF Poll

\* A watch reads a last time.
LEMMA LastReadSound ==
  ASSUME TypeInv, Sound, NEW o \in Observers, LastRead(o), mishaps' = {}
  PROVE  Sound'
<1>1. \A q \in Observers : w[q].pc # "write"
  BY DEF LastRead, Went, ReadCrosses, Amid
<1> QED
  BY <1>1, ReadSound DEF LastRead

\* An observer reads what it is about to write, if it is to write at all.
LEMMA ParseSound ==
  ASSUME TypeInv, Sound, NEW o \in Observers, Parse(o), mishaps' = {}
  PROVE  Sound'
<1>x. PICK x : x = w[o]
  OBVIOUS
<1>1. x \in Observer /\ ObserverInv(x) /\ x.pc = "ensure"
      /\ UNCHANGED <<runtime, agent, happened, half, events>>
      /\ \A q \in Observers : w[q].pc # "write"
  BY <1>x DEF Parse, Sound, TypeInv, TypeOK, Went, ReadCrosses, Amid
<1>2. CASE Loaded
  BY <1>1, <1>2, <1>x, IdleAgain DEF Parse
<1>3. CASE ~Loaded
  <2>y. PICK y : y = [x EXCEPT !.pc = "create", !.parsed = Lines]
    OBVIOUS
  <2>1. w' = [w EXCEPT ![o] = y]
    BY <1>3, <1>x, <2>y DEF Parse
  <2>2. y.pc = "create" /\ y.parsed = Lines /\ y.shown = x.shown /\ y.cached = x.cached /\ y.queue = x.queue
    BY <1>1, <2>y DEF Observer
  <2>3. ParsedInv(y)
    <3>1. CASE runtime = "native"
      <4>1. Lines = events /\ Len(events) = happened /\ \A i \in 1 .. Len(events) : events[i] = i
        BY <1>1, <3>1 DEF Sound, EventsInv, Lines
      <4>2. agent \notin {"running", "ended"}
        BY <1>3, <3>1 DEF Loaded, LogThere, Status
      <4>3. happened \in Nat
        BY DEF TypeInv, TypeOK
      <4> QED
        BY <2>2, <4>1, <4>2, <4>3 DEF ParsedInv
    <3>2. CASE runtime # "native"
      <4>1. Len(Lines) = happened /\ (\A i \in 1 .. Len(Lines) : Lines[i] = i) /\ happened \in Nat
        BY <3>2, LinesType DEF TypeInv, TypeOK
      <4> QED
        BY <2>2, <3>2, <4>1 DEF ParsedInv
    <3> QED
      BY <3>1, <3>2
  <2>4. ReaderInv(y) /\ ShownInv(y)
    BY <1>1, <2>2 DEF ObserverInv, ReaderInv, ShownInv, Reading
  <2>5. \A q \in Observers : ObserverInv(w[q])'
    BY <1>1, <2>1, <2>3, <2>4, OthersSound DEF ObserverInv
  <2>6. EventsInv'
    BY <1>1, <1>x, <2>1, EventsStay
  <2>7. ClaudeInv'
    BY <1>1, <1>x, <2>1, <2>2, OneOfClaude DEF Reading
  <2> QED
    BY <2>5, <2>6, <2>7 DEF Sound
<1> QED
  BY <1>2, <1>3

\* A rewrite truncates the log.
LEMMA CreateLogSound == ASSUME TypeInv, Sound, NEW o \in Observers, CreateLog(o) PROVE Sound'
<1>x. PICK x : x = w[o]
  OBVIOUS
<1>1. /\ x \in Observer /\ ObserverInv(x) /\ x.pc = "create" /\ events' = <<>>
      /\ UNCHANGED <<runtime, agent, happened, half>>
  BY <1>x DEF CreateLog, Sound, TypeInv, TypeOK
<1>y. PICK y : y = [x EXCEPT !.pc = "write"]
  OBVIOUS
<1>2. w' = [w EXCEPT ![o] = y]
  BY <1>x, <1>y DEF CreateLog
<1>3. y.pc = "write" /\ y.parsed = x.parsed /\ y.shown = x.shown /\ y.cached = x.cached /\ y.queue = x.queue
  BY <1>1, <1>y DEF Observer
<1>4. ReaderInv(y) /\ ShownInv(y) /\ ParsedInv(y)
  BY <1>1, <1>3 DEF ObserverInv, ReaderInv, ShownInv, ParsedInv, Reading
<1>5. \A q \in Observers : ObserverInv(w[q])'
  BY <1>1, <1>2, <1>4, OthersSound DEF ObserverInv
<1>6. EventsInv'
  <2>1. w'[o].pc = "write" /\ Len(events') = 0 /\ happened' \in Nat
    BY <1>1, <1>2, <1>3, Moved, Ends DEF TypeInv, TypeOK
  <2> QED
    BY <2>1 DEF EventsInv
<1>7. ClaudeInv'
  BY <1>1, <1>x, <1>2, <1>3, OneOfClaude DEF Reading
<1> QED
  BY <1>5, <1>6, <1>7 DEF Sound

\* A rewrite puts the log back.
LEMMA WriteLogSound == ASSUME TypeInv, Sound, NEW o \in Observers, WriteLog(o) PROVE Sound'
<1>x. PICK x : x = w[o]
  OBVIOUS
<1>1. /\ x \in Observer /\ ObserverInv(x) /\ x.pc = "write"
      /\ UNCHANGED <<runtime, agent, happened, half>>
      /\ w' = [w EXCEPT ![o] = NewObserver]
      /\ events' = x.parsed \o SubSeq(events, Len(x.parsed) + 1, Len(events))
  BY <1>x DEF WriteLog, Sound, TypeInv, TypeOK
<1>2. PICK p \in Events : p = x.parsed
  BY <1>1, ObserverFields
<1>3. /\ \A i \in 1 .. Len(p) : p[i] = i
      /\ Len(p) <= happened
      /\ runtime = "native" => Len(p) = happened
  BY <1>1, <1>2 DEF ObserverInv, ParsedInv
<1>4. events \in Events /\ Len(events) \in Nat /\ Len(p) \in Nat /\ happened \in Nat
  BY DEF TypeInv, TypeOK, Events
<1>5. Len(events) <= Len(p)
  <2>1. CASE runtime = "native"
    BY <1>3, <1>4, <2>1 DEF Sound, EventsInv
  <2>2. CASE runtime # "native"
    <3>1. events = <<>>
      BY <1>1, <1>x, <2>2 DEF Sound, ClaudeInv
    <3> QED
      BY <1>4, <3>1, Ends
  <2> QED
    BY <2>1, <2>2
<1>6. events' = p
  <2>1. SubSeq(events, Len(p) + 1, Len(events)) = <<>>
    <3>1. Len(p) + 1 > Len(events)
      BY <1>4, <1>5
    <3> QED
      BY <1>4, <3>1, SubSeqEmpty
  <2> QED
    <3>1. p \o <<>> = p
      BY Ends, ConcatEqualIffEmpty DEF Events
    <3> QED
      BY <1>1, <1>2, <2>1, <3>1
<1>7. \A q \in Observers : ObserverInv(w[q])'
  <2>1. ObserverInv(NewObserver)
    <3>1. [NewObserver EXCEPT !.pc = "idle"] = NewObserver
      BY DEF NewObserver
    <3> QED
      BY <3>1, NewSound
  <2> QED
    BY <1>1, <2>1, OthersSound
<1>8. EventsInv'
  BY <1>1, <1>3, <1>6 DEF EventsInv
<1>9. ClaudeInv'
  <2>1. NewObserver.pc = "idle"
    BY DEF NewObserver
  <2> QED
    BY <1>1, <1>x, <2>1, OneOfClaude DEF Reading
<1> QED
  BY <1>7, <1>8, <1>9 DEF Sound

\* The queue loses its first line.
LEMMA TakesFirst ==
  ASSUME NEW q \in Queues, q # <<>>, NEW k \in Nat, NEW l \in Nat,
         l <= Len(q), \A i \in 1 .. l : q[i] = k + i
  PROVE  /\ Head(q) = q[1] /\ Len(Tail(q)) = Len(q) - 1 /\ Tail(q) \in Queues
         /\ \A i \in 1 .. l - 1 : Tail(q)[i] = (k + 1) + i
         /\ Len(q) > 1 => Tail(q)[Len(Tail(q))] = q[Len(q)]
<1>1. /\ Tail(q) \in Queues /\ Len(Tail(q)) = Len(q) - 1
      /\ \A i \in 1 .. Len(Tail(q)) : Tail(q)[i] = q[i + 1]
  BY HeadTailProperties DEF Queues
<1>2. Head(q) = q[1] /\ Len(q) \in Nat
  BY DEF Queues
<1>3. ASSUME NEW i \in 1 .. l - 1 PROVE Tail(q)[i] = (k + 1) + i
  <2>1. i \in 1 .. Len(Tail(q)) /\ i + 1 \in 1 .. l /\ (k + 1) + i = k + (i + 1)
    BY <1>1, <1>2
  <2> QED
    BY <1>1, <2>1
<1>4. ASSUME Len(q) > 1 PROVE Tail(q)[Len(Tail(q))] = q[Len(q)]
  <2>1. Len(q) - 1 \in 1 .. Len(Tail(q)) /\ (Len(q) - 1) + 1 = Len(q)
    BY <1>1, <1>2, <1>4
  <2> QED
    BY <1>1, <2>1
<1> QED
  BY <1>1, <1>2, <1>3, <1>4

\* What is left of a queue when one has been taken.
LEMMA OneLeft == ASSUME NEW l \in Nat \ {0}, NEW e \in 0 .. 1 PROVE l - e >= 1 \/ (e = 1 /\ l = 1)
  OBVIOUS

\* What the loop finds in front of the queue.
LEMMA InFront ==
  ASSUME TypeInv, Sound, NEW o \in Observers, NEW x, x = w[o], x.queue # <<>>
  PROVE  /\ x \in Observer /\ ObserverInv(x) /\ x.pc \in Reading
         /\ x.queue \in Queues /\ Taken(x) \in Nat /\ Len(x.queue) \in Nat \ {0}
         /\ Ended(x) \in 0 .. 1 /\ Ended(x) <= Len(x.queue)
         /\ Head(x.queue) = x.queue[1]
         /\ Head(x.queue) = Finished =>
              x.pc = "drain" /\ Len(x.queue) = 1
         /\ Head(x.queue) # Finished =>
              Len(x.queue) - Ended(x) >= 1 /\ Head(x.queue) = Taken(x) + 1
<1>1. x \in Observer /\ ObserverInv(x)
  BY DEF Sound, TypeInv, TypeOK
<1>2. x.pc \in Reading
  BY <1>1 DEF ObserverInv, ReaderInv
<1>3. x.queue \in Queues /\ x.skipped \in Nat /\ x.shown \in Events
  BY <1>1, ObserverFields
<1>4. Taken(x) \in Nat /\ Len(x.queue) \in Nat \ {0}
  <2>1. Len(x.shown) \in Nat
    BY <1>3 DEF Events
  <2>2. Len(x.queue) \in Nat \ {0}
    BY <1>3 DEF Queues
  <2> QED
    BY <1>3, <2>1, <2>2 DEF Taken
<1>5. Ended(x) \in 0 .. 1 /\ (Ended(x) = 1 <=> x.pc = "drain")
  BY DEF Ended
<1>6. Head(x.queue) = x.queue[1]
  BY <1>3 DEF Queues
<1> PICK k \in Nat : k = Taken(x)
  BY <1>4
<1> PICK l \in Nat \ {0} : l = Len(x.queue)
  BY <1>4
<1> PICK e \in 0 .. 1 : e = Ended(x)
  BY <1>5
<1>7. \A i \in 1 .. l - e : x.queue[i] = k + i
  BY <1>1, <1>2 DEF ObserverInv, ReaderInv
<1>8. e = 1 => x.queue[l] = Finished
  BY <1>1, <1>5, <1>2 DEF ObserverInv, ReaderInv
<1>9. l - e >= 1 => x.queue[1] = k + 1 /\ x.queue[1] # Finished
  BY <1>7 DEF Finished
<1>10. ~(l - e >= 1) => e = 1 /\ l = 1 /\ x.queue[1] = Finished
  BY <1>8, OneLeft
<1> QED
  BY <1>1, <1>2, <1>3, <1>4, <1>5, <1>6, <1>9, <1>10

\* The end of the session is taken from the queue.
LEMMA ShowsEnd ==
  ASSUME TypeInv, Sound, NEW o \in Observers, NEW x, x = w[o], x.queue # <<>>, x.cached # NotCounted,
         Head(x.queue) = Finished,
         w' = [w EXCEPT ![o] = [[x EXCEPT !.queue = Tail(x.queue)] EXCEPT !.pc = "ensure"]],
         UNCHANGED <<runtime, agent, happened, half, events>>
  PROVE  Sound'
<1>1. /\ x \in Observer /\ ObserverInv(x) /\ x.pc = "drain" /\ x.queue \in Queues
      /\ Len(x.queue) = 1 /\ Taken(x) \in Nat
  BY InFront
<1>2. Tail(x.queue) = <<>>
  <2>1. Tail(x.queue) \in Queues /\ Len(Tail(x.queue)) = 1 - 1
    BY <1>1, HeadTailProperties DEF Queues
  <2> QED
    <3>1. Len(Tail(x.queue)) = 0
      BY <2>1
    <3> QED
      BY <2>1, <3>1, EmptySeq DEF Queues
<1>y. PICK y : y = [[x EXCEPT !.queue = Tail(x.queue)] EXCEPT !.pc = "ensure"]
  OBVIOUS
<1>3. y.pc = "ensure" /\ y.queue = <<>> /\ y.cached = x.cached /\ y.shown = x.shown
  BY <1>1, <1>2, <1>y DEF Observer
<1>4. w' = [w EXCEPT ![o] = y]
  BY <1>y
<1>5. ReaderInv(y) /\ ParsedInv(y)
  BY <1>3 DEF ReaderInv, ParsedInv, Reading
<1>6. ShownInv(y)
  <2>1. PICK s \in Nat, c \in Nat, n \in Nat, m \in Nat :
          s = x.skipped /\ c = x.cached /\ n = Len(x.shown) /\ m = happened
    <3>1. x.skipped \in Nat /\ x.cached \in Nat /\ x.shown \in Events
      BY <1>1, ObserverFields
    <3>2. happened \in Nat /\ Len(x.shown) \in Nat
      BY <3>1 DEF TypeInv, TypeOK, Events
    <3> QED
      BY <3>1, <3>2
  <2>2. /\ 2 * (Taken(x) + Len(x.queue) - Ended(x)) = x.offset - x.partial
        /\ x.offset - x.partial = 2 * happened /\ agent = "finished"
    BY <1>1 DEF ObserverInv, ReaderInv, Reading
  <2>3. Taken(x) = s + n /\ Ended(x) = 1
    BY <1>1, <2>1 DEF Taken, Ended
  <2>4. 2 * (s + n + 1 - 1) = 2 * m
    BY <1>1, <2>1, <2>2, <2>3
  <2>5. s + n = m
    BY SMTT(60), <2>4
  <2>6. c <= m /\ s <= c /\ (n = 0 \/ s = c)
    BY <1>1, <2>1, Ends DEF ObserverInv, ShownInv, Reading
  <2>7. c + n = m
    BY <2>5, <2>6
  <2>8. \A i \in 1 .. Len(y.shown) : y.shown[i] = y.cached + i
    BY <1>1, <1>3 DEF ObserverInv, ShownInv
  <2> QED
    BY <1>3, <2>1, <2>2, <2>7, <2>8 DEF ShownInv, Reading
<1>7. \A q \in Observers : ObserverInv(w[q])'
  BY <1>4, <1>5, <1>6, OthersSound DEF ObserverInv
<1>8. EventsInv'
  BY <1>1, <1>4, EventsStay
<1>9. ClaudeInv'
  BY ZenonT(60), <1>1, <1>3, <1>4, OneOfClaude DEF Reading
<1> QED
  BY <1>7, <1>8, <1>9 DEF Sound

\* A line leaves the queue and is taken.
LEMMA TakesLine ==
  ASSUME TypeInv, Sound, NEW o \in Observers, NEW x, x = w[o], x.queue # <<>>, Head(x.queue) # Finished,
         NEW y, y.pc = x.pc, y.queue = Tail(x.queue), y.offset = x.offset, y.partial = x.partial,
         Taken(y) = Taken(x) + 1
  PROVE  ReaderInv(y) /\ Taken(x) + 1 <= happened
<1>1. /\ x \in Observer /\ ReaderInv(x) /\ x.pc \in Reading /\ x.queue \in Queues
  BY InFront DEF ObserverInv
<1>2. PICK k \in Nat, l \in Nat \ {0}, e \in 0 .. 1 :
        k = Taken(x) /\ l = Len(x.queue) /\ e = Ended(x) /\ l - e >= 1
  BY InFront
<1>3. /\ 2 * (k + l - e) = x.offset - x.partial /\ x.offset <= 2 * happened + half
      /\ \A i \in 1 .. l - e : x.queue[i] = k + i
      /\ x.pc = "drain" => x.queue[l] = Finished /\ x.offset - x.partial = 2 * happened
      /\ x.pc \in {"last", "drain"} => agent = "finished"
  BY <1>1, <1>2 DEF ReaderInv
<1>4. Ended(y) = e /\ (e = 1 <=> x.pc = "drain")
  BY <1>2 DEF Ended
<1>5. PICK le \in Nat : le = l - e
  BY <1>2
<1>6. /\ Len(y.queue) = l - 1
      /\ \A i \in 1 .. le - 1 : y.queue[i] = (k + 1) + i
      /\ l > 1 => y.queue[Len(y.queue)] = x.queue[l]
  <2>1. le <= Len(x.queue) /\ \A i \in 1 .. le : x.queue[i] = k + i
    <3>1. le <= l
      BY <1>2, <1>5
    <3>2. \A i \in 1 .. le : x.queue[i] = k + i
      BY <1>3, <1>5
    <3> QED
      BY <1>2, <3>1, <3>2
  <2>2. Len(Tail(x.queue)) = Len(x.queue) - 1
    BY <1>1, <2>1, TakesFirst
  <2>3. \A i \in 1 .. le - 1 : Tail(x.queue)[i] = (k + 1) + i
    BY <1>1, <2>1, TakesFirst
  <2>4. Len(x.queue) > 1 => Tail(x.queue)[Len(Tail(x.queue))] = x.queue[Len(x.queue)]
    BY <1>1, <2>1, TakesFirst
  <2> QED
    BY <1>2, <2>2, <2>3, <2>4
<1>7. (k + 1) + (l - 1) - e = k + l - e /\ (l - 1) - e = le - 1
  BY <1>5
<1>8. 2 * (Taken(y) + Len(y.queue) - Ended(y)) = y.offset - y.partial
  BY <1>2, <1>3, <1>4, <1>6, <1>7
<1>9. \A i \in 1 .. Len(y.queue) - Ended(y) : y.queue[i] = Taken(y) + i
  BY <1>2, <1>4, <1>6, <1>7
<1>10. ASSUME y.pc = "drain" PROVE Len(y.queue) > 0 /\ y.queue[Len(y.queue)] = Finished
  <2>1. x.pc = "drain" /\ e = 1
    BY <1>4, <1>10
  <2>2. l > 1
    BY <1>2, <2>1
  <2>3. x.queue[l] = Finished
    BY <1>3, <2>1
  <2>4. Len(y.queue) = l - 1 /\ y.queue[Len(y.queue)] = x.queue[l]
    BY <1>6, <2>2
  <2>5. Len(y.queue) > 0
    BY <2>2, <2>4
  <2> QED
    BY <2>3, <2>4, <2>5
<1>11. ReaderInv(y)
  BY <1>1, <1>3, <1>8, <1>9, <1>10 DEF ReaderInv
<1>12. k + 1 <= happened
  <2>1. PICK m \in Nat, h \in 0 .. 1, n \in Nat, p \in 0 .. 1 :
          m = happened /\ h = half /\ n = x.offset /\ p = x.partial
    <3>1. x.offset \in Nat /\ x.partial \in 0 .. 1
      BY <1>1, ObserverFields
    <3>2. happened \in Nat /\ half \in 0 .. 1
      BY DEF TypeInv, TypeOK
    <3> QED
      BY <3>1, <3>2
  <2>2. PICK j \in Nat : j = k + l - e
    BY <1>2
  <2>3. 2 * j = n - p /\ n <= 2 * m + h
    BY <1>3, <2>1, <2>2
  <2>4. j <= m
    BY <2>3, Counted
  <2>5. k + 1 <= j
    BY <1>2, <2>2
  <2> QED
    BY <2>1, <2>4, <2>5
<1> QED
  BY <1>2, <1>11, <1>12

\* A cached event is not shown again.
LEMMA SkipsLine ==
  ASSUME TypeInv, Sound, NEW o \in Observers, NEW x, x = w[o], x.queue # <<>>, x.cached # NotCounted,
         Head(x.queue) # Finished, x.skipped < x.cached,
         w' = [w EXCEPT ![o] = [[x EXCEPT !.queue = Tail(x.queue)] EXCEPT !.skipped = @ + 1]],
         UNCHANGED <<runtime, agent, happened, half, events>>
  PROVE  Sound'
<1>1. x \in Observer /\ ObserverInv(x) /\ x.pc \in Reading
  BY InFront
<1>2. x.skipped \in Nat /\ x.cached \in Nat /\ x.shown \in Events /\ Len(x.shown) \in Nat
  BY <1>1, ObserverFields DEF Events
<1>y. PICK y : y = [[x EXCEPT !.queue = Tail(x.queue)] EXCEPT !.skipped = @ + 1]
  OBVIOUS
<1>3. /\ y.pc = x.pc /\ y.queue = Tail(x.queue) /\ y.offset = x.offset /\ y.partial = x.partial
      /\ y.cached = x.cached /\ y.skipped = x.skipped + 1 /\ y.shown = x.shown
  BY <1>1, <1>y DEF Observer
<1>4. w' = [w EXCEPT ![o] = y]
  BY <1>y
<1>5. Taken(y) = Taken(x) + 1
  BY <1>2, <1>3 DEF Taken
<1>6. ReaderInv(y)
  BY <1>3, <1>5, TakesLine
<1>7. x.shown = <<>> /\ x.cached <= happened /\ x.skipped + 1 <= x.cached
  BY <1>1, <1>2 DEF ObserverInv, ShownInv
<1>8. ShownInv(y)
  BY <1>1, <1>3, <1>7 DEF ObserverInv, ShownInv, Reading
<1>9. ParsedInv(y)
  BY <1>1, <1>3 DEF ParsedInv, Reading
<1>10. \A q \in Observers : ObserverInv(w[q])'
  BY <1>4, <1>6, <1>8, <1>9, OthersSound DEF ObserverInv
<1>11. w[o].pc \notin {"idle", "write"} /\ y.pc # "write"
  BY <1>1, <1>3 DEF Reading
<1>12. EventsInv'
  BY <1>4, <1>11, EventsStay
<1>13. ClaudeInv'
  <2>1. runtime # "native" => Len(events') = y.cached + Len(y.shown)
    BY <1>1, <1>3 DEF Sound, ClaudeInv
  <2> QED
    BY <1>4, <1>11, <2>1, OneOfClaude
<1> QED
  BY <1>10, <1>12, <1>13 DEF Sound

\* The next event is shown and, for Claude, appended.
LEMMA ShowsLine ==
  ASSUME TypeInv, Sound, NEW o \in Observers, NEW x, x = w[o], x.queue # <<>>, x.cached # NotCounted,
         Head(x.queue) # Finished, ~(x.skipped < x.cached),
         w' = [w EXCEPT ![o] = [[x EXCEPT !.queue = Tail(x.queue)]
                                  EXCEPT !.shown = Append(@, Head(x.queue))]],
         IF runtime = "native" THEN UNCHANGED events
         ELSE AppendEvent(Head(x.queue)) /\ AppendCrosses = {},
         UNCHANGED <<runtime, agent, happened, half>>
  PROVE  Sound'
<1>1. x \in Observer /\ ObserverInv(x) /\ x.pc \in Reading /\ Head(x.queue) = Taken(x) + 1
  BY InFront
<1>2. x.skipped \in Nat /\ x.cached \in Nat /\ x.shown \in Events
  BY <1>1, ObserverFields
<1>3. PICK e \in Logged : e = Head(x.queue)
  <2>1. x.queue \in Queues
    BY <1>1, ObserverFields
  <2>2. Head(x.queue) \in Logged \cup {Finished}
    BY <2>1, HeadTailProperties DEF Queues
  <2> QED
    BY <2>2
<1>4. PICK n \in Nat : n = Len(x.shown)
  BY <1>2 DEF Events
<1>5. x.skipped = x.cached
  BY <1>1, <1>2 DEF ObserverInv, ShownInv
<1>6. e = x.cached + (n + 1) /\ e = (x.cached + n) + 1
  BY <1>1, <1>2, <1>3, <1>4, <1>5 DEF Taken
<1>y. PICK y : y = [[x EXCEPT !.queue = Tail(x.queue)] EXCEPT !.shown = Append(@, Head(x.queue))]
  OBVIOUS
<1>7. /\ y.pc = x.pc /\ y.queue = Tail(x.queue) /\ y.offset = x.offset /\ y.partial = x.partial
      /\ y.cached = x.cached /\ y.skipped = x.skipped /\ y.shown = Append(x.shown, e)
  BY <1>1, <1>3, <1>y DEF Observer
<1>8. w' = [w EXCEPT ![o] = y]
  BY <1>y
<1>9. /\ Len(y.shown) = n + 1 /\ y.shown[n + 1] = e
      /\ \A i \in 1 .. n : y.shown[i] = x.shown[i]
  BY <1>2, <1>4, <1>7, AppendProperties DEF Events
<1>10. Taken(y) = Taken(x) + 1
  <2>1. x.skipped + (n + 1) = (x.skipped + n) + 1
    BY <1>2
  <2> QED
    BY <1>4, <1>7, <1>9, <2>1 DEF Taken
<1>11. ReaderInv(y) /\ Taken(x) + 1 <= happened
  BY <1>7, <1>10, TakesLine
<1>12. e <= happened
  BY <1>1, <1>3, <1>11
<1>13. ShownInv(y)
  <2>1. \A i \in 1 .. n : x.shown[i] = x.cached + i
    BY <1>1, <1>4 DEF ObserverInv, ShownInv
  <2>2. \A i \in 1 .. n + 1 : y.shown[i] = y.cached + i
    BY <1>6, <1>7, <1>9, <2>1
  <2>3. x.cached <= happened
    BY <1>1 DEF ObserverInv, ShownInv
  <2> QED
    BY <1>1, <1>2, <1>5, <1>7, <1>9, <2>2, <2>3 DEF ShownInv, Reading
<1>14. ParsedInv(y)
  BY <1>1, <1>7 DEF ParsedInv, Reading
<1>15. \A q \in Observers : ObserverInv(w[q])'
  BY <1>8, <1>11, <1>13, <1>14, OthersSound DEF ObserverInv
<1>16. w[o].pc \notin {"idle", "write"} /\ y.pc # "write"
  BY <1>1, <1>7 DEF Reading
<1>17. CASE runtime = "native"
  <2>1. EventsInv'
    BY <1>8, <1>16, <1>17, EventsStay
  <2>2. ClaudeInv'
    BY <1>17 DEF ClaudeInv
  <2> QED
    BY <1>15, <2>1, <2>2 DEF Sound
<1>18. CASE runtime # "native"
  <2>1. Len(events) = x.cached + n /\ \A i \in 1 .. Len(events) : events[i] = i
    BY <1>1, <1>4, <1>18 DEF Sound, ClaudeInv, EventsInv
  <2>2. /\ Len(events') = Len(events) + 1 /\ events'[Len(events) + 1] = e
        /\ \A i \in 1 .. Len(events) : events'[i] = events[i]
    BY <1>3, <1>18, Appended DEF TypeInv
  <2>3. e = Len(events) + 1
    BY <1>6, <2>1
  <2>4. Len(events) \in Nat
    BY DEF TypeInv, TypeOK
  <2>5. EventsInv'
    <3>1. ASSUME NEW i \in 1 .. Len(events) + 1 PROVE events'[i] = i
      <4>1. CASE i = Len(events) + 1
        BY <2>2, <2>3, <4>1
      <4>2. CASE i # Len(events) + 1
        <5>1. i \in 1 .. Len(events)
          BY <2>4, <4>2
        <5> QED
          BY <2>1, <2>2, <5>1
      <4> QED
        BY <4>1, <4>2
    <3>2. Len(events') <= happened'
      BY <1>12, <2>2, <2>3
    <3> QED
      BY <1>18, <2>2, <3>1, <3>2 DEF EventsInv
  <2>6. Len(events') = y.cached + Len(y.shown)
    BY <1>6, <1>7, <1>9, <2>2, <2>3
  <2>7. ClaudeInv'
    BY <1>8, <1>16, <2>6, OneOfClaude
  <2> QED
    BY <1>15, <2>5, <2>7 DEF Sound
<1> QED
  BY <1>17, <1>18

\* A watch shows the first of what it has queued.
LEMMA ShowSound == ASSUME TypeInv, Sound, NEW o \in Observers, Show(o), mishaps' = {} PROVE Sound'
<1>x. PICK x : x = w[o]
  OBVIOUS
<1>1. x.queue # <<>> /\ x.cached # NotCounted /\ UNCHANGED <<runtime, agent, happened, half>>
  BY <1>x DEF Show
<1>2. CASE /\ Head(x.queue) = Finished /\ UNCHANGED events
           /\ w' = [w EXCEPT ![o] = [[x EXCEPT !.queue = Tail(x.queue)] EXCEPT !.pc = "ensure"]]
  BY <1>1, <1>2, <1>x, ShowsEnd
<1>3. CASE /\ Head(x.queue) # Finished /\ x.skipped < x.cached /\ UNCHANGED events
           /\ w' = [w EXCEPT ![o] = [[x EXCEPT !.queue = Tail(x.queue)] EXCEPT !.skipped = @ + 1]]
  BY <1>1, <1>3, <1>x, SkipsLine
<1>4. CASE /\ Head(x.queue) # Finished /\ ~(x.skipped < x.cached)
           /\ w' = [w EXCEPT ![o] = [[x EXCEPT !.queue = Tail(x.queue)]
                                       EXCEPT !.shown = Append(@, Head(x.queue))]]
           /\ IF runtime = "native" THEN UNCHANGED events
              ELSE AppendEvent(Head(x.queue)) /\ Went(AppendCrosses)
  <2>1. IF runtime = "native" THEN UNCHANGED events
        ELSE AppendEvent(Head(x.queue)) /\ AppendCrosses = {}
    BY SMTT(60), <1>4 DEF Went
  <2> QED
    BY <1>1, <1>4, <1>x, <2>1, ShowsLine
<1> QED
  BY <1>x, <1>2, <1>3, <1>4 DEF Show, Skipping

-----------------------------------------------------------------------------
(* All steps together *)

\* What has crossed a rewrite stays known.
LEMMA MishapsStay == ASSUME TypeInv, Next, mishaps' = {} PROVE mishaps = {}
  BY DEF Next, NativeEvent, ClaudeWrites, AgentEnds, Cancel, Step, StartWatch, StartReplay, Interrupt,
         CountCached, Poll, Check, LastRead, Show, Parse, CreateLog, WriteLog, Went

\* At first the invariant holds.
LEMMA InitSound == Init => WatchInv
<1> SUFFICES ASSUME Init PROVE Sound
  BY InitType DEF WatchInv
<1>1. TypeInv
  BY InitType
<1>2. \A o \in Observers : w[o] = NewObserver
  BY DEF Init
<1>3. [NewObserver EXCEPT !.pc = "idle"] = NewObserver /\ NewObserver.pc = "idle"
  BY DEF NewObserver
<1>4. ObserverInv(NewObserver)
  BY <1>1, <1>3, NewSound
<1>5. EventsInv
  <2>1. Len(events) = 0 /\ happened = 0
    BY Ends DEF Init
  <2> QED
    BY <2>1 DEF EventsInv
<1>6. ClaudeInv
  BY <1>2, <1>3 DEF ClaudeInv, Reading
<1> QED
  BY <1>2, <1>4, <1>5, <1>6 DEF Sound

\* Each step keeps the invariant.
LEMMA NextSound == WatchInv /\ [Next]_vars => WatchInv'
<1> SUFFICES ASSUME WatchInv, [Next]_vars, mishaps' = {} PROVE Sound'
  BY NextType DEF WatchInv
<1>0. TypeInv
  BY DEF WatchInv
<1>1. CASE UNCHANGED vars
  <2>1. Sound
    BY <1>1 DEF WatchInv, vars
  <2> QED
    BY <1>1, <2>1 DEF Sound, ObserverInv, ReaderInv, ShownInv, ParsedInv, EventsInv, ClaudeInv, vars
<1>2. CASE Next
  <2>0. Sound
    BY <1>0, <1>2, MishapsStay DEF WatchInv
  <2>1. CASE NativeEvent
    BY <1>0, <2>0, <2>1, NativeEventSound
  <2>2. CASE ClaudeWrites
    BY <1>0, <2>0, <2>2, ClaudeWritesSound
  <2>3. CASE AgentEnds
    BY <1>0, <2>0, <2>3, AgentEndsSound
  <2>4. CASE Cancel
    BY <2>4 DEF Cancel, Went
  <2>5. ASSUME NEW o \in Observers, Step(o) \/ StartWatch(o) \/ StartReplay(o) \/ Interrupt(o)
        PROVE  Sound'
    <3> USE <1>0, <2>0
    <3>1. CASE StartWatch(o) \/ StartReplay(o)
      BY <3>1, BeginsSound
    <3>2. CASE Interrupt(o)
      BY <3>2, InterruptSound
    <3>3. CASE CountCached(o)
      BY <3>3, CountCachedSound
    <3>4. CASE Poll(o)
      BY <3>4, PollSound
    <3>5. CASE Check(o)
      BY <3>5, CheckSound
    <3>6. CASE LastRead(o)
      BY <3>6, LastReadSound
    <3>7. CASE Show(o)
      BY <3>7, ShowSound
    <3>8. CASE Parse(o)
      BY <3>8, ParseSound
    <3>9. CASE CreateLog(o)
      BY <3>9, CreateLogSound
    <3>10. CASE WriteLog(o)
      BY <3>10, WriteLogSound
    <3> QED
      BY <2>5, <3>1, <3>2, <3>3, <3>4, <3>5, <3>6, <3>7, <3>8, <3>9, <3>10 DEF Step
  <2> QED
    BY <1>2, <2>1, <2>2, <2>3, <2>4, <2>5 DEF Next
<1> QED
  BY <1>1, <1>2

\* So it holds always.
LEMMA Inductive == Spec => []WatchInv
  BY InitSound, NextSound, PTL DEF Spec

\* The events up to a number are a sequence of that length.
LEMMA UpToType == ASSUME NEW n \in Nat PROVE UpTo(n) \in Seq(Nat) /\ Len(UpTo(n)) = n
  BY DEF UpTo

\* A watch that comes to the end of the session has shown what was not in
\* events.jsonl when it began, once and in order, for any number of
\* observers, events and commands and any choice of faults.
THEOREM WatchShowsAll == Spec => []WatchComplete
<1>1. WatchInv => WatchComplete
  <2> SUFFICES ASSUME WatchInv, mishaps = {}, NEW o \in Observers, w[o].pc = "ensure",
                      w[o].cached # NotCounted
               PROVE  w[o].shown = SubSeq(UpTo(happened), w[o].cached + 1, happened)
    BY DEF WatchComplete
  <2>1. w[o] \in Observer /\ ShownInv(w[o]) /\ happened \in Nat
    BY DEF WatchInv, Sound, ObserverInv, TypeInv, TypeOK
  <2>2. PICK c \in Nat, s \in Events, m \in Nat : c = w[o].cached /\ s = w[o].shown /\ m = happened
    BY <2>1, ObserverFields
  <2>3. c + Len(s) = m /\ \A i \in 1 .. Len(s) : s[i] = c + i
    BY <2>1, <2>2 DEF ShownInv
  <2>4. Len(s) \in Nat /\ s \in Seq(Nat)
    BY NumberedEvents
  <2>5. Len(s) = m - c /\ c <= m
    BY <2>3, <2>4
  <2>6. PICK j \in Nat \ {0} : j = c + 1
    OBVIOUS
  <2>7. \A i \in j .. m : UpTo(m)[i] = i /\ i \in Nat
    BY <2>6 DEF UpTo
  <2>8. SubSeq(UpTo(m), j, m) \in Seq(Nat)
    BY <2>7, SubSeqProperties
  <2>9. Len(SubSeq(UpTo(m), j, m)) = IF j <= m THEN m - j + 1 ELSE 0
    BY <2>7, SubSeqProperties
  <2>10. \A i \in 1 .. m - j + 1 : SubSeq(UpTo(m), j, m)[i] = UpTo(m)[j + i - 1]
    BY <2>7, SubSeqProperties
  <2>11. m - j + 1 = m - c /\ (~(j <= m) => m - c = 0)
    BY <2>5, <2>6
  <2>12. Len(SubSeq(UpTo(m), j, m)) = Len(s)
    BY <2>5, <2>9, <2>11
  <2>13. \A i \in 1 .. m - c : SubSeq(UpTo(m), j, m)[i] = c + i
    <3>1. \A i \in 1 .. m - c : j + i - 1 \in j .. m /\ j + i - 1 = c + i
      BY <2>6
    <3> QED
      BY <2>7, <2>10, <2>11, <3>1
  <2>14. \A i \in 1 .. Len(s) : s[i] = SubSeq(UpTo(m), j, m)[i]
    BY <2>3, <2>5, <2>13
  <2>15. s = SubSeq(UpTo(m), j, m)
    BY <2>4, <2>8, <2>12, <2>14, SeqEqual
  <2> QED
    BY <2>2, <2>6, <2>15
<1> QED
  BY <1>1, Inductive, PTL

\* events.jsonl holds an unbroken beginning of what has happened, once and in
\* order, and all of it for a native session, over any sequence of watches,
\* replays and interruptions, unless something crossed a rewrite.
THEOREM LogKeepsOrder == Spec => []LogInOrder
<1>1. WatchInv => LogInOrder
  <2> SUFFICES ASSUME WatchInv, mishaps = {}, \A o \in Observers : w[o].pc # "write"
               PROVE  /\ events = UpTo(Len(events)) /\ Len(events) <= happened
                      /\ runtime = "native" => Len(events) = happened
    BY DEF LogInOrder
  <2>1. EventsInv /\ events \in Events
    BY DEF WatchInv, Sound, TypeInv, TypeOK, Events
  <2>2. Len(events) \in Nat /\ events \in Seq(Nat)
    BY <2>1, NumberedEvents
  <2>3. \A i \in 1 .. Len(events) : events[i] = UpTo(Len(events))[i]
    BY <2>1, <2>2 DEF EventsInv, UpTo
  <2>4. events = UpTo(Len(events))
    BY <2>2, <2>3, UpToType, SeqEqual
  <2> QED
    BY <2>1, <2>4 DEF EventsInv
<1> QED
  BY <1>1, Inductive, PTL
=============================================================================
