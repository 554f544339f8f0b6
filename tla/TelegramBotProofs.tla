------------------------- MODULE TelegramBotProofs -------------------------
(***************************************************************************)
(* What holds of TelegramBot for any number of updates, albums, lives of   *)
(* the service and things that go wrong.                                   *)
(***************************************************************************)
EXTENDS TelegramBot, TLAPS

USE DEF telegram, polling, albums, rows, notices

-----------------------------------------------------------------------------
(***************************************************************************)
(* Types.                                                                  *)
(***************************************************************************)
LEMMA CreateTypes ==
  ASSUME TypeOK, NEW r \in Updates, NEW b \in Updates, NEW s, Create(r, b, s)
  PROVE  /\ status' \in [Updates -> Statuses] /\ lead' \in [Updates -> Updates]
         /\ unstaged' \in SUBSET Updates /\ pending' \in SUBSET Updates
         /\ notified' \in SUBSET Updates /\ told' \in SUBSET Updates
         /\ unsent' \in SUBSET Updates /\ late' \in SUBSET Updates
<1>1. s \in Statuses
  BY DEF Create, Statuses, Finished
<1>2. status' \in [Updates -> Statuses] /\ lead' \in [Updates -> Updates]
  BY <1>1 DEF Create, TypeOK
<1> QED BY <1>2 DEF Create, TypeOK, Hear

LEMMA HandledIs ==
  ASSUME TypeOK, offset > 1
  PROVE  Handled \in Updates
  BY BotAssumption DEF TypeOK, Handled, Updates

LEMMA ForgetTypes ==
  ASSUME TypeOK, NEW W \in SUBSET Updates, Forget(W)
  PROVE  TypeOK'
<1>1. status' \in [Updates -> Statuses] /\ lead' \in [Updates -> Updates]
  BY DEF Forget, Statuses
<1>2. /\ buffer' \in [Groups -> SUBSET Updates] /\ staging' \in [Updates -> SUBSET Updates]
      /\ settled' \in SUBSET Updates
  BY DEF Forget, TypeOK, WithRow
<1> QED BY <1>1, <1>2, BotAssumption DEF Forget, TypeOK

\* What the poller is doing, and what that leaves to stop().
Phases ==
  /\ poller = "handling" => offset > 1
  /\ bot \in {"flushing", "down", "off"} => poller \in {"ended", "refused"}
  /\ bot \in {"down", "off"} => \A g \in Groups : buffer[g] = {}
  /\ bot = "off" => offset = 1

\* Updates from here on were not taken in by this life of the service.
Cursor == IF poller = "handling" THEN offset - 1 ELSE offset

\* An update is in one place.
Once ==
  /\ \A u \in Updates : u >= Cursor =>
       /\ u \notin WithRow
       /\ \A g \in Groups : u \notin buffer[g]
       /\ \A b \in Updates : u \notin staging[b]
  /\ \A g \in Groups : \A u \in buffer[g] :
       /\ album[u] = g /\ u \notin WithRow
       /\ \A b \in Updates : u \notin staging[b]
  /\ \A b \in Updates : \A u \in staging[b] :
       /\ ~Single(u) /\ ~Single(b) /\ u \notin WithRow
       /\ \A c \in Updates : u \in staging[c] => b = c

LEMMA FlushTypes ==
  ASSUME TypeOK, NEW g \in Groups, NEW u \in Updates, Flush(g, u)
  PROVE  buffer' \in [Groups -> SUBSET Updates] /\ staging' \in [Updates -> SUBSET Updates]
  BY DEF TypeOK, Flush

LEMMA TypeStep ==
  ASSUME TypeOK, Phases, [Next]_vars
  PROVE  TypeOK'
<1> USE BotAssumption DEF TypeOK, Phases, Event
<1>1. ASSUME Ask PROVE TypeOK'
  BY <1>1 DEF Ask
<1>2. ASSUME Arrives PROVE TypeOK'
  BY <1>2 DEF Arrives, Confirms
<1>3. ASSUME Answer PROVE TypeOK'
  BY <1>3 DEF Answer, Confirms
<1>4. ASSUME Aborted PROVE TypeOK'
  BY <1>4 DEF Aborted
<1>5. ASSUME Wakes PROVE TypeOK'
  BY <1>5 DEF Wakes
<1>6. ASSUME Take PROVE TypeOK'
  <2>1. offset' \in 1..(N + 1)
    BY <1>6 DEF Take
  <2> QED BY <1>6, <2>1 DEF Take
<1>7. ASSUME PollFails PROVE TypeOK'
  BY <1>7 DEF PollFails
<1>8. ASSUME PollRefused PROVE TypeOK'
  BY <1>8 DEF PollRefused
<1>9. ASSUME Refuse PROVE TypeOK'
  BY <1>9, HandledIs DEF Refuse
<1>10. ASSUME NEW s \in Statuses, Store(s) PROVE TypeOK'
  BY <1>10, HandledIs, CreateTypes DEF Store
<1>11. ASSUME Collect PROVE TypeOK'
  <2>1. Handled \in Updates /\ album[Handled] \in Groups
    BY <1>11, HandledIs DEF Collect
  <2>2. buffer' \in [Groups -> SUBSET Updates]
    BY <1>11, <2>1 DEF Collect
  <2> QED BY <1>11, <2>2 DEF Collect
<1>12. ASSUME NEW b \in Updates, NEW u \in Updates, NEW s \in Statuses, StoreMember(b, u, s) PROVE TypeOK'
  <2>1. staging' \in [Updates -> SUBSET Updates] /\ loaded' \in SUBSET Updates
    BY <1>12 DEF StoreMember
  <2> QED BY <1>12, <2>1, CreateTypes DEF StoreMember
<1>13. ASSUME NEW g \in Groups, NEW u \in Updates, QuietTimer(g, u) PROVE TypeOK'
  BY <1>13, FlushTypes DEF QuietTimer
<1>14. ASSUME NEW r \in Updates, NEW t \in {"done", "failed"}, Settle(r, t) PROVE TypeOK'
  <2>1. status' \in [Updates -> Statuses]
    BY <1>14 DEF Settle, Statuses, Finished
  <2> QED BY <1>14, <2>1 DEF Settle, Hear
<1>15. ASSUME NEW r \in Updates, Requeue(r) PROVE TypeOK'
  BY <1>15 DEF Requeue, Hear
<1>16. ASSUME NEW r \in Updates, Retry(r) PROVE TypeOK'
  <2>1. status' \in [Updates -> Statuses]
    BY <1>16 DEF Retry, Statuses, Finished
  <2>2. loaded' \in SUBSET Updates
    BY <1>16 DEF Retry, Reloads
  <2> QED BY <1>16, <2>1, <2>2 DEF Retry
<1>17. ASSUME NEW r \in Updates, Cancel(r) PROVE TypeOK'
  <2>1. status' \in [Updates -> Statuses]
    BY <1>17 DEF Cancel, Statuses, Finished
  <2> QED BY <1>17, <2>1 DEF Cancel
<1>18. ASSUME NEW r \in Updates, Notice(r) PROVE TypeOK'
  <2>1. Spoken(r) \in SUBSET Updates /\ lead[r] \in Updates
    BY DEF Spoken, Members
  <2>2. /\ told' \in SUBSET Updates /\ unsent' \in SUBSET Updates
        /\ events' \in 0..MaxEvents
    BY <1>18, <2>1 DEF Notice, Sends, Silent
  <2> QED BY <1>18, <2>1, <2>2 DEF Notice
<1>19. ASSUME Stop PROVE TypeOK'
  BY <1>19 DEF Stop
<1>20. ASSUME PollerStopped PROVE TypeOK'
  BY <1>20 DEF PollerStopped
<1>21. ASSUME BotDown PROVE TypeOK'
  BY <1>21 DEF BotDown
<1>22. ASSUME NEW g \in Groups, NEW u \in Updates, StopFlush(g, u) PROVE TypeOK'
  <2>1. buffer' \in [Groups -> SUBSET Updates] /\ staging' \in [Updates -> SUBSET Updates]
    BY <1>22, FlushTypes DEF StopFlush
  <2>2. awaited' \in 0..N
    BY <1>22 DEF StopFlush, Updates
  <2> QED BY <1>22, <2>1, <2>2 DEF StopFlush
<1>23. ASSUME Exit PROVE TypeOK'
  BY <1>23, ForgetTypes DEF Exit, InStaging
<1>24. ASSUME Crash PROVE TypeOK'
  BY <1>24, ForgetTypes DEF Crash, InStaging, InBuffers
<1>25. ASSUME Restart PROVE TypeOK'
  BY <1>25 DEF Restart
<1>27. ASSUME NEW B \in SUBSET Updates, Reload(B) PROVE TypeOK'
  BY <1>27 DEF Reload, Reloads
<1>26. CASE UNCHANGED vars
  BY <1>26 DEF vars
<1> HIDE BotAssumption DEF TypeOK, Phases, Event
<1> QED
  BY <1>1, <1>2, <1>3, <1>4, <1>5, <1>6, <1>7, <1>8, <1>9, <1>10, <1>11, <1>12, <1>13,
      <1>14, <1>15, <1>16, <1>17, <1>18, <1>19, <1>20, <1>21, <1>22, <1>23, <1>24,
      <1>25, <1>26, <1>27
     DEF Next, Polls, Handles, Stages, Queue, Stopping

LEMMA PhasesStep ==
  ASSUME TypeOK, Phases, [Next]_vars
  PROVE  Phases'
<1> USE DEF TypeOK, Phases
<1>1. ASSUME Ask PROVE Phases'
  BY <1>1 DEF Ask
<1>2. ASSUME Arrives PROVE Phases'
  BY <1>2 DEF Arrives
<1>3. ASSUME Answer PROVE Phases'
  BY <1>3 DEF Answer
<1>4. ASSUME Aborted PROVE Phases'
  BY <1>4 DEF Aborted
<1>5. ASSUME Wakes PROVE Phases'
  BY <1>5 DEF Wakes
<1>6. ASSUME Take PROVE Phases'
  BY <1>6 DEF Take
<1>7. ASSUME PollFails PROVE Phases'
  BY <1>7 DEF PollFails
<1>8. ASSUME PollRefused PROVE Phases'
  BY <1>8 DEF PollRefused
<1>9. ASSUME Refuse PROVE Phases'
  BY <1>9 DEF Refuse
<1>10. ASSUME NEW s \in Statuses, Store(s) PROVE Phases'
  BY <1>10 DEF Store, Create
<1>11. ASSUME Collect PROVE Phases'
  BY <1>11 DEF Collect
<1>12. ASSUME NEW b \in Updates, NEW u \in Updates, NEW s \in Statuses, StoreMember(b, u, s) PROVE Phases'
  <2>1. bot # "off" /\ buffer' = buffer /\ bot' = bot /\ poller' = poller /\ offset' = offset
    BY <1>12 DEF StoreMember, Up
  <2> QED BY <2>1
<1>13. ASSUME NEW g \in Groups, NEW u \in Updates, QuietTimer(g, u) PROVE Phases'
  BY <1>13 DEF QuietTimer, Flush
<1>14. ASSUME NEW r \in Updates, NEW t \in {"done", "failed"}, Settle(r, t) PROVE Phases'
  BY <1>14 DEF Settle, Up
<1>15. ASSUME NEW r \in Updates, Requeue(r) PROVE Phases'
  BY <1>15 DEF Requeue
<1>16. ASSUME NEW r \in Updates, Retry(r) PROVE Phases'
  BY <1>16 DEF Retry, Up
<1>17. ASSUME NEW r \in Updates, Cancel(r) PROVE Phases'
  BY <1>17 DEF Cancel, Up
<1>18. ASSUME NEW r \in Updates, Notice(r) PROVE Phases'
  BY <1>18 DEF Notice
<1>19. ASSUME Stop PROVE Phases'
  BY <1>19 DEF Stop
<1>20. ASSUME PollerStopped PROVE Phases'
  BY <1>20 DEF PollerStopped
<1>21. ASSUME BotDown PROVE Phases'
  BY <1>21 DEF BotDown, InBuffers
<1>22. ASSUME NEW g \in Groups, NEW u \in Updates, StopFlush(g, u) PROVE Phases'
  BY <1>22 DEF StopFlush, Flush
<1>23. ASSUME Exit PROVE Phases'
  BY <1>23 DEF Exit, Forget
<1>24. ASSUME Crash PROVE Phases'
  BY <1>24 DEF Crash, Forget
<1>25. ASSUME Restart PROVE Phases'
  BY <1>25 DEF Restart
<1>27. ASSUME NEW B \in SUBSET Updates, Reload(B) PROVE Phases'
  BY <1>27 DEF Reload, Up
<1>26. CASE UNCHANGED vars
  BY <1>26 DEF vars
<1> HIDE DEF TypeOK, Phases
<1> QED
  BY <1>1, <1>2, <1>3, <1>4, <1>5, <1>6, <1>7, <1>8, <1>9, <1>10, <1>11, <1>12, <1>13,
      <1>14, <1>15, <1>16, <1>17, <1>18, <1>19, <1>20, <1>21, <1>22, <1>23, <1>24,
      <1>25, <1>26, <1>27
     DEF Next, Polls, Handles, Stages, Queue, Stopping

LEMMA CreateRow ==
  ASSUME TypeOK, NEW r \in Updates, NEW b \in Updates, NEW s, Create(r, b, s)
  PROVE  WithRow' = WithRow \cup {r}
  BY DEF Create, WithRow, TypeOK

LEMMA QueueRows ==
  ASSUME TypeOK, NEW r \in Updates, Queue(r)
  PROVE  WithRow' = WithRow
<1> USE DEF TypeOK, WithRow
<1>1. ASSUME NEW t \in {"done", "failed"}, Settle(r, t) PROVE WithRow' = WithRow
  BY <1>1 DEF Settle
<1>2. CASE Requeue(r)
  BY <1>2 DEF Requeue
<1>3. CASE Retry(r)
  BY <1>3 DEF Retry
<1>4. CASE Cancel(r)
  BY <1>4 DEF Cancel
<1> QED BY <1>1, <1>2, <1>3, <1>4 DEF Queue

LEMMA ForgetRows ==
  ASSUME NEW W, Forget(W)
  PROVE  WithRow' = {}
  BY DEF Forget, WithRow

LEMMA OnceStep ==
  ASSUME TypeOK, Phases, Once, [Next]_vars
  PROVE  Once'
<1> USE DEF TypeOK, Phases, Once, Cursor, Single
<1>1. ASSUME Ask PROVE Once'
  BY <1>1 DEF Ask, WithRow
<1>2. ASSUME Arrives PROVE Once'
  BY <1>2 DEF Arrives, WithRow
<1>3. ASSUME Answer PROVE Once'
  BY <1>3 DEF Answer, WithRow
<1>4. ASSUME Aborted PROVE Once'
  BY <1>4 DEF Aborted, WithRow
<1>5. ASSUME Wakes PROVE Once'
  BY <1>5 DEF Wakes, WithRow
<1>6. ASSUME Take PROVE Once'
  BY <1>6 DEF Take, WithRow
<1>7. ASSUME PollFails PROVE Once'
  BY <1>7 DEF PollFails, WithRow
<1>8. ASSUME PollRefused PROVE Once'
  BY <1>8 DEF PollRefused, WithRow
<1>9. ASSUME Refuse PROVE Once'
  <2>1. \A u \in Updates : u >= Cursor' => u >= Cursor
    BY <1>9, BotAssumption DEF Refuse, Updates
  <2>2. WithRow' = WithRow /\ UNCHANGED <<buffer, staging, album>>
    BY <1>9 DEF Refuse, WithRow
  <2> QED BY <2>1, <2>2
<1>10. ASSUME NEW s \in Statuses, Store(s) PROVE Once'
  <2>1. Handled \in Updates /\ Handled = Cursor
    BY <1>10, HandledIs DEF Store, Handled
  <2>2. WithRow' = WithRow \cup {Handled}
    BY <1>10, <2>1, CreateRow DEF Store
  <2>3. \A u \in Updates : u >= Cursor' => u >= Cursor /\ u # Handled
    BY <1>10, BotAssumption DEF Store, Updates, Handled
  <2>4. UNCHANGED <<buffer, staging, album>>
    BY <1>10 DEF Store
  <2>5. (\A g \in Groups : Handled \notin buffer[g]) /\ \A b \in Updates : Handled \notin staging[b]
    <3>1. Cursor \in Int /\ Handled >= Cursor
      BY <2>1, <1>10 DEF Handled
    <3> QED BY <2>1, <3>1
  <2> HIDE DEF Cursor
  <2> QED BY <2>1, <2>2, <2>3, <2>4, <2>5
<1>11. ASSUME Collect PROVE Once'
  <2>1. Handled \in Updates /\ Handled = Cursor /\ album[Handled] \in Groups
    BY <1>11, HandledIs DEF Collect, Handled
  <2>2. WithRow' = WithRow
    BY <1>11 DEF Collect, WithRow
  <2>3. \A u \in Updates : u >= Cursor' => u >= Cursor /\ u # Handled
    BY <1>11, BotAssumption DEF Collect, Updates, Handled
  <2>4. /\ UNCHANGED <<staging, album>>
        /\ \A g \in Groups : \A u \in buffer'[g] :
             u \in buffer[g] \/ (u = Handled /\ g = album[Handled])
    BY <1>11, <2>1 DEF Collect
  <2>5. Handled \notin WithRow /\ \A b \in Updates : Handled \notin staging[b]
    <3>1. Cursor \in Int /\ Handled >= Cursor
      BY <2>1, <1>11 DEF Handled
    <3> QED BY <2>1, <3>1
  <2> HIDE DEF Cursor
  <2>6. ASSUME NEW u \in Updates, u >= Cursor'
        PROVE  /\ u \notin WithRow'
               /\ \A g \in Groups : u \notin buffer'[g]
               /\ \A b \in Updates : u \notin staging'[b]
    <3>1. u >= Cursor /\ u # Handled
      BY <2>3, <2>6
    <3>2. /\ u \notin WithRow
          /\ \A g \in Groups : u \notin buffer[g]
          /\ \A b \in Updates : u \notin staging[b]
      BY <3>1
    <3>3. \A g \in Groups : u \notin buffer'[g]
      BY <3>1, <3>2, <2>4
    <3> QED BY <3>2, <3>3, <2>2, <2>4
  <2>7. ASSUME NEW g \in Groups, NEW u \in buffer'[g]
        PROVE  /\ album'[u] = g /\ u \notin WithRow'
               /\ \A b \in Updates : u \notin staging'[b]
    <3>1. CASE u \in buffer[g]
      BY <3>1, <2>2, <2>4
    <3>2. CASE u = Handled /\ g = album[Handled]
      BY <3>2, <2>2, <2>4, <2>5
    <3>3. u \in buffer[g] \/ (u = Handled /\ g = album[Handled])
      BY <2>4, <2>7
    <3> QED BY <3>1, <3>2, <3>3
  <2> QED BY <2>2, <2>4, <2>6, <2>7
<1>12. ASSUME NEW b \in Updates, NEW u \in Updates, NEW s \in Statuses, StoreMember(b, u, s) PROVE Once'
  <2>1. u \in staging[b]
    BY <1>12 DEF StoreMember, First
  <2>2. WithRow' = WithRow \cup {u}
    BY <1>12, CreateRow DEF StoreMember
  <2> QED BY <1>12, <2>1, <2>2 DEF StoreMember
<1>13. ASSUME NEW g \in Groups, NEW u \in Updates, QuietTimer(g, u) PROVE Once'
  <2>1. u \in buffer[g] /\ u \in Updates /\ buffer[g] \subseteq Updates
    BY <1>13 DEF QuietTimer, Flush, First
  <2>2. /\ buffer' = [buffer EXCEPT ![g] = {}]
        /\ staging' = [staging EXCEPT ![u] = staging[u] \cup buffer[g]]
        /\ WithRow' = WithRow /\ album' = album /\ poller' = poller /\ offset' = offset
    BY <1>13 DEF QuietTimer, Flush, WithRow
  <2>3. \A b \in Updates : staging'[b] = IF b = u THEN staging[u] \cup buffer[g] ELSE staging[b]
    BY <2>2
  <2>4. \A h \in Groups : buffer'[h] = IF h = g THEN {} ELSE buffer[h]
    BY <2>2
  <2> QED BY <2>1, <2>2, <2>3, <2>4, BotAssumption
<1>14. ASSUME NEW r \in Updates, NEW t \in {"done", "failed"}, Settle(r, t) PROVE Once'
  <2>1. WithRow' = WithRow
    BY <1>14, QueueRows DEF Queue
  <2> QED BY <1>14, <2>1 DEF Settle
<1>15. ASSUME NEW r \in Updates, Requeue(r) PROVE Once'
  <2>1. WithRow' = WithRow
    BY <1>15, QueueRows DEF Queue
  <2> QED BY <1>15, <2>1 DEF Requeue
<1>16. ASSUME NEW r \in Updates, Retry(r) PROVE Once'
  <2>1. WithRow' = WithRow
    BY <1>16, QueueRows DEF Queue
  <2> QED BY <1>16, <2>1 DEF Retry
<1>17. ASSUME NEW r \in Updates, Cancel(r) PROVE Once'
  <2>1. WithRow' = WithRow
    BY <1>17, QueueRows DEF Queue
  <2> QED BY <1>17, <2>1 DEF Cancel
<1>18. ASSUME NEW r \in Updates, Notice(r) PROVE Once'
  BY <1>18 DEF Notice, WithRow
<1>19. ASSUME Stop PROVE Once'
  BY <1>19 DEF Stop, WithRow
<1>20. ASSUME PollerStopped PROVE Once'
  BY <1>20 DEF PollerStopped, WithRow
<1>21. ASSUME BotDown PROVE Once'
  BY <1>21 DEF BotDown, WithRow
<1>22. ASSUME NEW g \in Groups, NEW u \in Updates, StopFlush(g, u) PROVE Once'
  <2>1. u \in buffer[g] /\ u \in Updates /\ buffer[g] \subseteq Updates
    BY <1>22 DEF StopFlush, Flush, First
  <2>2. /\ buffer' = [buffer EXCEPT ![g] = {}]
        /\ staging' = [staging EXCEPT ![u] = staging[u] \cup buffer[g]]
        /\ WithRow' = WithRow /\ album' = album /\ poller' = poller /\ offset' = offset
    BY <1>22 DEF StopFlush, Flush, WithRow
  <2>3. \A b \in Updates : staging'[b] = IF b = u THEN staging[u] \cup buffer[g] ELSE staging[b]
    BY <2>2
  <2>4. \A h \in Groups : buffer'[h] = IF h = g THEN {} ELSE buffer[h]
    BY <2>2
  <2> QED BY <2>1, <2>2, <2>3, <2>4, BotAssumption
<1>23. ASSUME Exit PROVE Once'
  <2>1. WithRow' = {}
    BY <1>23, ForgetRows DEF Exit
  <2> QED BY <1>23, <2>1 DEF Exit, Forget
<1>24. ASSUME Crash PROVE Once'
  <2>1. WithRow' = {}
    BY <1>24, ForgetRows DEF Crash
  <2> QED BY <1>24, <2>1 DEF Crash, Forget
<1>25. ASSUME Restart PROVE Once'
  <2>1. Cursor = 1 /\ \A u \in Updates : u >= Cursor
    BY <1>25, BotAssumption DEF Restart, Updates
  <2>2. WithRow' = WithRow /\ UNCHANGED <<buffer, staging, album>>
    BY <1>25 DEF Restart, WithRow
  <2> HIDE DEF Cursor
  <2> QED BY <2>1, <2>2
<1>27. ASSUME NEW B \in SUBSET Updates, Reload(B) PROVE Once'
  BY <1>27 DEF Reload, WithRow
<1>26. CASE UNCHANGED vars
  BY <1>26 DEF vars, WithRow
<1> HIDE DEF TypeOK, Phases, Once, Cursor, Single
<1> QED
  BY <1>1, <1>2, <1>3, <1>4, <1>5, <1>6, <1>7, <1>8, <1>9, <1>10, <1>11, <1>12, <1>13,
      <1>14, <1>15, <1>16, <1>17, <1>18, <1>19, <1>20, <1>21, <1>22, <1>23, <1>24,
      <1>25, <1>26, <1>27
     DEF Next, Polls, Handles, Stages, Queue, Stopping

\* An update has become something.
Held(u) ==
  \/ u \in settled \cup WithRow
  \/ \E g \in Groups : u \in buffer[g]
  \/ \E b \in Updates : u \in staging[b]

\* What was taken in is held, and what was confirmed.
Kept ==
  /\ \A u \in Updates : u < Cursor => Held(u)
  /\ \A u \in Updates : u <= confirmed => Held(u)

LEMMA ForgetKeeps ==
  ASSUME TypeOK, Kept, NEW W, Forget(W),
         \A u \in Updates : Held(u) => u \in settled \cup WithRow \cup W
  PROVE  Kept'
<1>1. \A u \in Updates : ~(u < Cursor')
  BY BotAssumption DEF Forget, Cursor, Updates
<1>2. ASSUME NEW u \in Updates, u <= confirmed PROVE Held(u)'
  <2>1. u \in settled \cup WithRow \cup W /\ u \in 1..confirmed
    BY <1>2, BotAssumption DEF Kept, Updates, TypeOK
  <2> QED BY <2>1 DEF Forget, Held
<1> QED BY <1>1, <1>2 DEF Kept, Forget

LEMMA KeptStep ==
  ASSUME TypeOK, Phases, Kept, [Next]_vars
  PROVE  Kept'
<1>1. ASSUME Ask PROVE Kept'
  <2>1. \A u \in Updates : Held(u) => Held(u)'
    BY <1>1 DEF Ask, Held, WithRow
  <2>2. Cursor' = Cursor /\ confirmed' = confirmed
    BY <1>1 DEF Ask, Cursor
  <2> QED BY <2>1, <2>2 DEF Kept
<1>2. ASSUME Arrives PROVE Kept'
  <2>1. \A u \in Updates : Held(u) => Held(u)'
    BY <1>2 DEF Arrives, Held, WithRow
  <2>2. /\ Cursor' = Cursor
        /\ \A u \in Updates : u <= confirmed' => u < Cursor
    BY <1>2, BotAssumption DEF Arrives, Confirms, Cursor, Updates, TypeOK
  <2> QED BY <2>1, <2>2 DEF Kept
<1>3. ASSUME Answer PROVE Kept'
  <2>1. \A u \in Updates : Held(u) => Held(u)'
    BY <1>3 DEF Answer, Held, WithRow
  <2>2. /\ Cursor' = Cursor
        /\ \A u \in Updates : u <= confirmed' => u < Cursor
    BY <1>3, BotAssumption DEF Answer, Confirms, Cursor, Updates, TypeOK
  <2> QED BY <2>1, <2>2 DEF Kept
<1>4. ASSUME Aborted PROVE Kept'
  <2>1. \A u \in Updates : Held(u) => Held(u)'
    BY <1>4 DEF Aborted, Held, WithRow
  <2>2. Cursor' = Cursor /\ confirmed' = confirmed
    BY <1>4 DEF Aborted, Cursor
  <2> QED BY <2>1, <2>2 DEF Kept
<1>5. ASSUME Wakes PROVE Kept'
  <2>1. \A u \in Updates : Held(u) => Held(u)'
    BY <1>5 DEF Wakes, Held, WithRow
  <2>2. Cursor' = Cursor /\ confirmed' = confirmed
    BY <1>5 DEF Wakes, Cursor
  <2> QED BY <2>1, <2>2 DEF Kept
<1>6. ASSUME Take PROVE Kept'
  <2>1. \A u \in Updates : Held(u) => Held(u)'
    BY <1>6 DEF Take, Held, WithRow
  <2>2. Cursor' = Cursor /\ confirmed' = confirmed
    BY <1>6, BotAssumption DEF Take, Cursor, TypeOK
  <2> QED BY <2>1, <2>2 DEF Kept
<1>7. ASSUME PollFails PROVE Kept'
  <2>1. \A u \in Updates : Held(u) => Held(u)'
    BY <1>7 DEF PollFails, Held, WithRow
  <2>2. Cursor' = Cursor /\ confirmed' = confirmed
    BY <1>7 DEF PollFails, Cursor
  <2> QED BY <2>1, <2>2 DEF Kept
<1>8. ASSUME PollRefused PROVE Kept'
  <2>1. \A u \in Updates : Held(u) => Held(u)'
    BY <1>8 DEF PollRefused, Held, WithRow
  <2>2. Cursor' = Cursor /\ confirmed' = confirmed
    BY <1>8 DEF PollRefused, Cursor
  <2> QED BY <2>1, <2>2 DEF Kept
<1>9. ASSUME Refuse PROVE Kept'
  <2>1. Handled \in Updates /\ Cursor = Handled
    BY <1>9, HandledIs DEF Refuse, Handled, Cursor, Phases
  <2>3. \A u \in Updates : Held(u) \/ u = Handled => Held(u)'
    BY <1>9 DEF Refuse, Held, WithRow, Handled
  <2>4. \A u \in Updates : u < Cursor' => u < Cursor \/ u = Handled
    BY <1>9, BotAssumption DEF TypeOK, Refuse, Cursor, Handled, Updates
  <2>5. confirmed' = confirmed
    BY <1>9 DEF Refuse
  <2> QED BY <2>3, <2>4, <2>5 DEF Kept
<1>10. ASSUME NEW s \in Statuses, Store(s) PROVE Kept'
  <2>1. Handled \in Updates /\ Cursor = Handled
    BY <1>10, HandledIs DEF Store, Handled, Cursor, Phases
  <2>2. WithRow' = WithRow \cup {Handled} /\ UNCHANGED <<buffer, staging, settled, offset>>
    BY <1>10, <2>1, CreateRow DEF Store
  <2>3. \A u \in Updates : Held(u) \/ u = Handled => Held(u)'
    BY <2>2 DEF Held, Handled
  <2>4. \A u \in Updates : u < Cursor' => u < Cursor \/ u = Handled
    BY <1>10, BotAssumption DEF TypeOK, Store, Cursor, Handled, Updates
  <2>5. confirmed' = confirmed
    BY <1>10 DEF Store
  <2> QED BY <2>3, <2>4, <2>5 DEF Kept
<1>11. ASSUME Collect PROVE Kept'
  <2>1. Handled \in Updates /\ Cursor = Handled
    BY <1>11, HandledIs DEF Collect, Handled, Cursor, Phases
  <2>2. /\ album[Handled] \in Groups /\ UNCHANGED <<staging, settled, offset>>
        /\ WithRow' = WithRow
        /\ \A g \in Groups : buffer[g] \subseteq buffer'[g]
        /\ Handled \in buffer'[album[Handled]]
    BY <1>11, <2>1 DEF Collect, TypeOK, WithRow
  <2>3. \A u \in Updates : Held(u) \/ u = Handled => Held(u)'
    BY <2>2 DEF Held, Handled
  <2>4. \A u \in Updates : u < Cursor' => u < Cursor \/ u = Handled
    BY <1>11, BotAssumption DEF TypeOK, Collect, Cursor, Handled, Updates
  <2>5. confirmed' = confirmed
    BY <1>11 DEF Collect
  <2> QED BY <2>3, <2>4, <2>5 DEF Kept
<1>12. ASSUME NEW b \in Updates, NEW u \in Updates, NEW s \in Statuses, StoreMember(b, u, s) PROVE Kept'
  <2>1. WithRow' = WithRow \cup {u} /\ settled' = settled /\ buffer' = buffer
    BY <1>12, CreateRow DEF StoreMember
  <2>2. \A c \in Updates : \A v \in staging[c] : v \in staging'[c] \/ v = u
    BY <1>12 DEF StoreMember, TypeOK
  <2>3. \A v \in Updates : Held(v) => Held(v)'
    BY <2>1, <2>2 DEF Held
  <2>4. Cursor' = Cursor /\ confirmed' = confirmed
    BY <1>12 DEF StoreMember, Cursor
  <2> QED BY <2>3, <2>4 DEF Kept
<1>13. ASSUME NEW g \in Groups, NEW u \in Updates, QuietTimer(g, u) PROVE Kept'
  <2>1. u \in Updates /\ buffer[g] \subseteq Updates
    BY <1>13 DEF QuietTimer, Flush, First, TypeOK
  <2>2. /\ WithRow' = WithRow /\ settled' = settled
        /\ \A h \in Groups : h # g => buffer'[h] = buffer[h]
        /\ \A b \in Updates : staging[b] \subseteq staging'[b]
        /\ buffer[g] \subseteq staging'[u]
    BY <1>13 DEF QuietTimer, Flush, WithRow, TypeOK
  <2>3. \A v \in Updates : Held(v) => Held(v)'
    BY <2>1, <2>2 DEF Held
  <2>4. Cursor' = Cursor /\ confirmed' = confirmed
    BY <1>13 DEF QuietTimer, Cursor
  <2> QED BY <2>3, <2>4 DEF Kept
<1>14. ASSUME NEW r \in Updates, NEW t \in {"done", "failed"}, Settle(r, t) PROVE Kept'
  <2>1. WithRow' = WithRow
    BY <1>14, QueueRows DEF Queue
  <2>2. \A u \in Updates : Held(u) => Held(u)'
    BY <1>14, <2>1 DEF Settle, Held
  <2>3. Cursor' = Cursor /\ confirmed' = confirmed
    BY <1>14 DEF Settle, Cursor
  <2> QED BY <2>2, <2>3 DEF Kept
<1>15. ASSUME NEW r \in Updates, Requeue(r) PROVE Kept'
  <2>1. WithRow' = WithRow
    BY <1>15, QueueRows DEF Queue
  <2>2. \A u \in Updates : Held(u) => Held(u)'
    BY <1>15, <2>1 DEF Requeue, Held
  <2>3. Cursor' = Cursor /\ confirmed' = confirmed
    BY <1>15 DEF Requeue, Cursor
  <2> QED BY <2>2, <2>3 DEF Kept
<1>16. ASSUME NEW r \in Updates, Retry(r) PROVE Kept'
  <2>1. WithRow' = WithRow
    BY <1>16, QueueRows DEF Queue
  <2>2. \A u \in Updates : Held(u) => Held(u)'
    BY <1>16, <2>1 DEF Retry, Held
  <2>3. Cursor' = Cursor /\ confirmed' = confirmed
    BY <1>16 DEF Retry, Cursor
  <2> QED BY <2>2, <2>3 DEF Kept
<1>17. ASSUME NEW r \in Updates, Cancel(r) PROVE Kept'
  <2>1. WithRow' = WithRow
    BY <1>17, QueueRows DEF Queue
  <2>2. \A u \in Updates : Held(u) => Held(u)'
    BY <1>17, <2>1 DEF Cancel, Held
  <2>3. Cursor' = Cursor /\ confirmed' = confirmed
    BY <1>17 DEF Cancel, Cursor
  <2> QED BY <2>2, <2>3 DEF Kept
<1>18. ASSUME NEW r \in Updates, Notice(r) PROVE Kept'
  <2>1. \A u \in Updates : Held(u) => Held(u)'
    BY <1>18 DEF Notice, Held, WithRow
  <2>2. Cursor' = Cursor /\ confirmed' = confirmed
    BY <1>18 DEF Notice, Cursor
  <2> QED BY <2>1, <2>2 DEF Kept
<1>19. ASSUME Stop PROVE Kept'
  <2>1. \A u \in Updates : Held(u) => Held(u)'
    BY <1>19 DEF Stop, Held, WithRow
  <2>2. Cursor' = Cursor /\ confirmed' = confirmed
    BY <1>19 DEF Stop, Cursor
  <2> QED BY <2>1, <2>2 DEF Kept
<1>20. ASSUME PollerStopped PROVE Kept'
  <2>1. \A u \in Updates : Held(u) => Held(u)'
    BY <1>20 DEF PollerStopped, Held, WithRow
  <2>2. Cursor' = Cursor /\ confirmed' = confirmed
    BY <1>20 DEF PollerStopped, Cursor
  <2> QED BY <2>1, <2>2 DEF Kept
<1>21. ASSUME BotDown PROVE Kept'
  <2>1. \A u \in Updates : Held(u) => Held(u)'
    BY <1>21 DEF BotDown, Held, WithRow
  <2>2. Cursor' = Cursor /\ confirmed' = confirmed
    BY <1>21 DEF BotDown, Cursor
  <2> QED BY <2>1, <2>2 DEF Kept
<1>22. ASSUME NEW g \in Groups, NEW u \in Updates, StopFlush(g, u) PROVE Kept'
  <2>1. u \in Updates /\ buffer[g] \subseteq Updates
    BY <1>22 DEF StopFlush, Flush, First, TypeOK
  <2>2. /\ WithRow' = WithRow /\ settled' = settled
        /\ \A h \in Groups : h # g => buffer'[h] = buffer[h]
        /\ \A b \in Updates : staging[b] \subseteq staging'[b]
        /\ buffer[g] \subseteq staging'[u]
    BY <1>22 DEF StopFlush, Flush, WithRow, TypeOK
  <2>3. \A v \in Updates : Held(v) => Held(v)'
    BY <2>1, <2>2 DEF Held
  <2>4. Cursor' = Cursor /\ confirmed' = confirmed
    BY <1>22 DEF StopFlush, Cursor
  <2> QED BY <2>3, <2>4 DEF Kept
<1>23. ASSUME Exit PROVE Kept'
  <2>1. \A g \in Groups : buffer[g] = {}
    BY <1>23 DEF Exit, Phases
  <2>2. \A u \in Updates : Held(u) => u \in settled \cup WithRow \cup InStaging
    BY <2>1 DEF Held, InStaging
  <2> QED BY <1>23, <2>2, ForgetKeeps DEF Exit
<1>24. ASSUME Crash PROVE Kept'
  <2>1. \A u \in Updates : Held(u) => u \in settled \cup WithRow \cup (InBuffers \cup InStaging)
    BY DEF Held, InStaging, InBuffers
  <2> QED BY <1>24, <2>1, ForgetKeeps DEF Crash
<1>25. ASSUME Restart PROVE Kept'
  <2>1. \A u \in Updates : Held(u) => Held(u)'
    BY <1>25 DEF Restart, Held, WithRow
  <2>2. \A u \in Updates : u < Cursor' => u <= confirmed
    BY <1>25, BotAssumption DEF Restart, Cursor, Updates, TypeOK
  <2>3. confirmed' = confirmed
    BY <1>25 DEF Restart
  <2> QED BY <2>1, <2>2, <2>3 DEF Kept
<1>27. ASSUME NEW B \in SUBSET Updates, Reload(B) PROVE Kept'
  <2>1. \A u \in Updates : Held(u) => Held(u)'
    BY <1>27 DEF Reload, Held, WithRow
  <2>2. Cursor' = Cursor /\ confirmed' = confirmed
    BY <1>27 DEF Reload, Cursor
  <2> QED BY <2>1, <2>2 DEF Kept
<1>26. CASE UNCHANGED vars
  BY <1>26 DEF vars, Kept, Held, Cursor, WithRow
<1> QED
  BY <1>1, <1>2, <1>3, <1>4, <1>5, <1>6, <1>7, <1>8, <1>9, <1>10, <1>11, <1>12, <1>13,
      <1>14, <1>15, <1>16, <1>17, <1>18, <1>19, <1>20, <1>21, <1>22, <1>23, <1>24,
      <1>25, <1>26, <1>27
     DEF Next, Polls, Handles, Stages, Queue, Stopping

\* A job on its own leads itself, and only itself.
Leads ==
  /\ \A r \in Updates : Single(r) => lead[r] = r
  /\ \A r \in WithRow : Single(lead[r]) => Single(r)

\* The chat was told of a batch's rows when it was marked, if not in vain, or the
\* row is of a later time; a notice comes of a row the queue could have.
Talks ==
  /\ \A b \in notified : ~Single(b)
  /\ \A r \in WithRow : lead[r] \in notified => r \in told \cup unsent \cup late
  /\ \A r \in pending : r \in WithRow /\ (Single(r) \/ r \in unstaged \cup loaded)

LEMMA StillLeads ==
  ASSUME Leads, WithRow' = WithRow, UNCHANGED <<album, lead>>
  PROVE  Leads'
  BY DEF Leads, Single

LEMMA CreateLeads ==
  ASSUME TypeOK, Leads, NEW r \in Updates, NEW b \in Updates, NEW s, Create(r, b, s),
         Single(r) <=> Single(b), Single(r) => b = r, album' = album
  PROVE  Leads'
<1>1. WithRow' = WithRow \cup {r}
  BY CreateRow
<1>2. WithRow \subseteq Updates /\ \A v \in Updates : lead'[v] = IF v = r THEN b ELSE lead[v]
  BY DEF Create, TypeOK, WithRow
<1> QED BY <1>1, <1>2 DEF Leads, Single

LEMMA ForgetLeads ==
  ASSUME NEW W, Forget(W)
  PROVE  Leads'
<1>1. WithRow' = {}
  BY ForgetRows
<1> QED BY <1>1 DEF Forget, Leads

LEMMA LeadsStep ==
  ASSUME TypeOK, Phases, Once, Leads, [Next]_vars
  PROVE  Leads'
<1>1. ASSUME Ask PROVE Leads'
  BY <1>1, StillLeads DEF Ask, WithRow
<1>2. ASSUME Arrives PROVE Leads'
  BY <1>2, StillLeads DEF Arrives, WithRow
<1>3. ASSUME Answer PROVE Leads'
  BY <1>3, StillLeads DEF Answer, WithRow
<1>4. ASSUME Aborted PROVE Leads'
  BY <1>4, StillLeads DEF Aborted, WithRow
<1>5. ASSUME Wakes PROVE Leads'
  BY <1>5, StillLeads DEF Wakes, WithRow
<1>6. ASSUME Take PROVE Leads'
  BY <1>6, StillLeads DEF Take, WithRow
<1>7. ASSUME PollFails PROVE Leads'
  BY <1>7, StillLeads DEF PollFails, WithRow
<1>8. ASSUME PollRefused PROVE Leads'
  BY <1>8, StillLeads DEF PollRefused, WithRow
<1>9. ASSUME Refuse PROVE Leads'
  BY <1>9, StillLeads DEF Refuse, WithRow
<1>10. ASSUME NEW s \in Statuses, Store(s) PROVE Leads'
  <2>1. Handled \in Updates
    BY <1>10, HandledIs DEF Store, Phases
  <2> QED BY <1>10, <2>1, CreateLeads DEF Store, Single
<1>11. ASSUME Collect PROVE Leads'
  BY <1>11, StillLeads DEF Collect, WithRow
<1>12. ASSUME NEW b \in Updates, NEW u \in Updates, NEW s \in Statuses, StoreMember(b, u, s) PROVE Leads'
  <2>1. ~Single(u) /\ ~Single(b)
    BY <1>12 DEF StoreMember, First, Once
  <2> QED BY <1>12, <2>1, CreateLeads DEF StoreMember
<1>13. ASSUME NEW g \in Groups, NEW u \in Updates, QuietTimer(g, u) PROVE Leads'
  BY <1>13, StillLeads DEF QuietTimer, WithRow
<1>14. ASSUME NEW r \in Updates, NEW t \in {"done", "failed"}, Settle(r, t) PROVE Leads'
  <2>1. WithRow' = WithRow
    BY <1>14, QueueRows DEF Queue
  <2> QED BY <1>14, <2>1, StillLeads DEF Settle
<1>15. ASSUME NEW r \in Updates, Requeue(r) PROVE Leads'
  <2>1. WithRow' = WithRow
    BY <1>15, QueueRows DEF Queue
  <2> QED BY <1>15, <2>1, StillLeads DEF Requeue
<1>16. ASSUME NEW r \in Updates, Retry(r) PROVE Leads'
  <2>1. WithRow' = WithRow
    BY <1>16, QueueRows DEF Queue
  <2> QED BY <1>16, <2>1, StillLeads DEF Retry
<1>17. ASSUME NEW r \in Updates, Cancel(r) PROVE Leads'
  <2>1. WithRow' = WithRow
    BY <1>17, QueueRows DEF Queue
  <2> QED BY <1>17, <2>1, StillLeads DEF Cancel
<1>18. ASSUME NEW r \in Updates, Notice(r) PROVE Leads'
  BY <1>18, StillLeads DEF Notice, WithRow
<1>19. ASSUME Stop PROVE Leads'
  BY <1>19, StillLeads DEF Stop, WithRow
<1>20. ASSUME PollerStopped PROVE Leads'
  BY <1>20, StillLeads DEF PollerStopped, WithRow
<1>21. ASSUME BotDown PROVE Leads'
  BY <1>21, StillLeads DEF BotDown, WithRow
<1>22. ASSUME NEW g \in Groups, NEW u \in Updates, StopFlush(g, u) PROVE Leads'
  BY <1>22, StillLeads DEF StopFlush, WithRow
<1>23. ASSUME Exit PROVE Leads'
  BY <1>23, ForgetLeads DEF Exit
<1>24. ASSUME Crash PROVE Leads'
  BY <1>24, ForgetLeads DEF Crash
<1>25. ASSUME Restart PROVE Leads'
  BY <1>25, StillLeads DEF Restart, WithRow
<1>27. ASSUME NEW B \in SUBSET Updates, Reload(B) PROVE Leads'
  BY <1>27, StillLeads DEF Reload, WithRow
<1>26. CASE UNCHANGED vars
  BY <1>26, StillLeads DEF vars, WithRow
<1> QED
  BY <1>1, <1>2, <1>3, <1>4, <1>5, <1>6, <1>7, <1>8, <1>9, <1>10, <1>11, <1>12, <1>13,
      <1>14, <1>15, <1>16, <1>17, <1>18, <1>19, <1>20, <1>21, <1>22, <1>23, <1>24,
      <1>25, <1>26, <1>27
     DEF Next, Polls, Handles, Stages, Queue, Stopping

LEMMA StillTalks ==
  ASSUME Talks, WithRow' = WithRow, UNCHANGED <<album, lead, notified>>,
         told \cup unsent \cup late \subseteq (told \cup unsent \cup late)',
         pending' \subseteq pending, unstaged \subseteq unstaged', loaded \subseteq loaded'
  PROVE  Talks'
  BY DEF Talks, Single

\* A row the queue works on may get a notice.
LEMMA HeardTalks ==
  ASSUME Talks, NEW r \in WithRow, Claimable(r), WithRow' = WithRow,
         pending' \subseteq pending \cup {r},
         UNCHANGED <<album, lead, notified, told, unsent, late, unstaged, loaded>>
  PROVE  Talks'
  BY DEF Talks, Single, Claimable

LEMMA CreateTalks ==
  ASSUME TypeOK, Talks, NEW r \in Updates, NEW b \in Updates, NEW s, Create(r, b, s),
         r \notin WithRow, album' = album, loaded \subseteq loaded'
  PROVE  Talks'
<1>1. WithRow' = WithRow \cup {r}
  BY CreateRow
<1>2. /\ pending' \subseteq pending \cup {r} /\ unstaged \subseteq unstaged'
      /\ r \in pending' => r \in unstaged' \/ r \in pending
      /\ \A v \in Updates : lead'[v] = IF v = r THEN b ELSE lead[v]
      /\ b \in notified => r \in late'
      /\ late \subseteq late' /\ UNCHANGED <<notified, told, unsent>>
  BY DEF Create, Hear, TypeOK
<1>3. r \notin pending /\ WithRow \subseteq Updates
  BY DEF Talks, WithRow
<1>4. \A c \in notified' : ~Single(c)'
  BY <1>2 DEF Talks, Single
<1>5. \A v \in WithRow' : lead'[v] \in notified' => v \in (told \cup unsent \cup late)'
  BY <1>1, <1>2, <1>3 DEF Talks
<1>6. \A v \in pending' : v \in WithRow' /\ (Single(v)' \/ v \in (unstaged \cup loaded)')
  BY <1>1, <1>2, <1>3 DEF Talks, Single
<1> QED BY <1>4, <1>5, <1>6 DEF Talks

LEMMA TalksStep ==
  ASSUME TypeOK, Phases, Once, Leads, Talks, [Next]_vars
  PROVE  Talks'
<1>1. ASSUME Ask PROVE Talks'
  BY <1>1, StillTalks DEF Ask, WithRow
<1>2. ASSUME Arrives PROVE Talks'
  BY <1>2, StillTalks DEF Arrives, WithRow
<1>3. ASSUME Answer PROVE Talks'
  BY <1>3, StillTalks DEF Answer, WithRow
<1>4. ASSUME Aborted PROVE Talks'
  BY <1>4, StillTalks DEF Aborted, WithRow
<1>5. ASSUME Wakes PROVE Talks'
  BY <1>5, StillTalks DEF Wakes, WithRow
<1>6. ASSUME Take PROVE Talks'
  BY <1>6, StillTalks DEF Take, WithRow
<1>7. ASSUME PollFails PROVE Talks'
  BY <1>7, StillTalks DEF PollFails, WithRow
<1>8. ASSUME PollRefused PROVE Talks'
  BY <1>8, StillTalks DEF PollRefused, WithRow
<1>9. ASSUME Refuse PROVE Talks'
  BY <1>9, StillTalks DEF Refuse, WithRow
<1>10. ASSUME NEW s \in Statuses, Store(s) PROVE Talks'
  <2>1. Handled \in Updates /\ Handled \notin WithRow
    <3>1. Handled \in Updates /\ Handled = Cursor
      BY <1>10, HandledIs DEF Store, Handled, Cursor, Phases
    <3>2. Cursor \in Int /\ Handled >= Cursor
      BY <3>1 DEF Cursor, TypeOK
    <3> QED BY <3>1, <3>2 DEF Once
  <2> QED BY <1>10, <2>1, CreateTalks DEF Store
<1>11. ASSUME Collect PROVE Talks'
  BY <1>11, StillTalks DEF Collect, WithRow
<1>12. ASSUME NEW b \in Updates, NEW u \in Updates, NEW s \in Statuses, StoreMember(b, u, s) PROVE Talks'
  <2>1. u \notin WithRow
    BY <1>12 DEF StoreMember, First, Once
  <2> QED BY <1>12, <2>1, CreateTalks DEF StoreMember
<1>13. ASSUME NEW g \in Groups, NEW u \in Updates, QuietTimer(g, u) PROVE Talks'
  BY <1>13, StillTalks DEF QuietTimer, WithRow
<1>14. ASSUME NEW r \in Updates, NEW t \in {"done", "failed"}, Settle(r, t) PROVE Talks'
  <2>1. WithRow' = WithRow /\ r \in WithRow
    BY <1>14, QueueRows DEF Queue, Settle, WithRow
  <2> QED BY <1>14, <2>1, HeardTalks DEF Settle, Hear
<1>15. ASSUME NEW r \in Updates, Requeue(r) PROVE Talks'
  <2>1. WithRow' = WithRow /\ r \in WithRow
    BY <1>15, QueueRows DEF Queue, Requeue, WithRow
  <2> QED BY <1>15, <2>1, HeardTalks DEF Requeue, Hear
<1>16. ASSUME NEW r \in Updates, Retry(r) PROVE Talks'
  <2>1. WithRow' = WithRow /\ r \in WithRow
    BY <1>16, QueueRows DEF Queue, Retry, WithRow
  <2>2. loaded \subseteq loaded'
    BY <1>16 DEF Retry, Reloads
  <2>3. ASSUME NEW v \in WithRow, lead[v] \in notified
        PROVE  v \in (told \cup unsent \cup late)'
    <3>1. CASE v = r
      BY <1>16, <2>3, <3>1 DEF Retry, Leads, Talks
    <3>2. CASE v # r
      BY <1>16, <2>3, <3>2 DEF Retry, Talks
    <3> QED BY <3>1, <3>2
  <2>4. UNCHANGED <<album, lead, notified, pending, unstaged>>
    BY <1>16 DEF Retry
  <2> QED BY <2>1, <2>2, <2>3, <2>4 DEF Talks, Single
<1>17. ASSUME NEW r \in Updates, Cancel(r) PROVE Talks'
  <2>1. WithRow' = WithRow
    BY <1>17, QueueRows DEF Queue
  <2> QED BY <1>17, <2>1, StillTalks DEF Cancel
<1>18. ASSUME NEW r \in Updates, Notice(r) PROVE Talks'
  <2>1. /\ WithRow' = WithRow /\ UNCHANGED <<album, lead, unstaged, loaded, late>>
        /\ pending' \subseteq pending
    BY <1>18 DEF Notice, WithRow
  <2>2. r \in WithRow
    BY <1>18 DEF Notice, Talks
  <2>3. told \cup unsent \subseteq told' \cup unsent'
    BY <1>18 DEF Notice, Sends, Silent
  <2>4. CASE TellsBatch(r)
    <3>1. notified' = notified \cup {lead[r]} /\ Members(lead[r]) \subseteq told' \cup unsent'
      BY <1>18, <2>4 DEF Notice, Sends, Spoken, TellsBatch
    <3>2. ~Single(lead[r])
      BY <2>2, <2>4 DEF TellsBatch, Leads
    <3>3. \A v \in WithRow : lead[v] = lead[r] => v \in Members(lead[r])
      BY DEF Members, WithRow
    <3> QED BY <2>1, <2>3, <3>1, <3>2, <3>3 DEF Talks, Single
  <2>5. CASE ~TellsBatch(r)
    BY <1>18, <2>1, <2>3, <2>5, StillTalks DEF Notice
  <2> QED BY <2>4, <2>5
<1>19. ASSUME Stop PROVE Talks'
  BY <1>19, StillTalks DEF Stop, WithRow
<1>20. ASSUME PollerStopped PROVE Talks'
  BY <1>20, StillTalks DEF PollerStopped, WithRow
<1>21. ASSUME BotDown PROVE Talks'
  BY <1>21, StillTalks DEF BotDown, WithRow
<1>22. ASSUME NEW g \in Groups, NEW u \in Updates, StopFlush(g, u) PROVE Talks'
  BY <1>22, StillTalks DEF StopFlush, WithRow
<1>23. ASSUME Exit PROVE Talks'
  <2>1. WithRow' = {}
    BY <1>23, ForgetRows DEF Exit
  <2> QED BY <1>23, <2>1 DEF Exit, Forget, Talks
<1>24. ASSUME Crash PROVE Talks'
  <2>1. WithRow' = {}
    BY <1>24, ForgetRows DEF Crash
  <2> QED BY <1>24, <2>1 DEF Crash, Forget, Talks
<1>25. ASSUME Restart PROVE Talks'
  BY <1>25, StillTalks DEF Restart, WithRow
<1>27. ASSUME NEW B \in SUBSET Updates, Reload(B) PROVE Talks'
  BY <1>27, StillTalks DEF Reload, Reloads, WithRow
<1>26. CASE UNCHANGED vars
  BY <1>26, StillTalks DEF vars, WithRow
<1> QED
  BY <1>1, <1>2, <1>3, <1>4, <1>5, <1>6, <1>7, <1>8, <1>9, <1>10, <1>11, <1>12, <1>13,
      <1>14, <1>15, <1>16, <1>17, <1>18, <1>19, <1>20, <1>21, <1>22, <1>23, <1>24,
      <1>25, <1>26, <1>27
     DEF Next, Polls, Handles, Stages, Queue, Stopping

-----------------------------------------------------------------------------
(***************************************************************************)
(* Notices.                                                                *)
(***************************************************************************)
LEMMA SameRows ==
  ASSUME OutcomeReachesChat, bot' = "on" => bot = "on",
         UNCHANGED <<status, lead>>, pending \subseteq pending',
         told \cup unsent \cup late \subseteq (told \cup unsent \cup late)'
  PROVE  OutcomeReachesChat'
<1>1. \A b \in Updates : Members(b)' = Members(b)
  BY DEF Members
<1>2. \A v \in Updates : Members(lead[v])' = Members(lead[v])
  BY DEF Members
<1>3. \A v \in Updates : Outcome(lead[v])' => Outcome(lead[v])
  BY <1>2 DEF Outcome, Complete
<1> QED BY <1>2, <1>3 DEF OutcomeReachesChat

\* One row of the batch b moves or appears: the other batches are as they were.
LEMMA OneRowMoves ==
  ASSUME OutcomeReachesChat, NEW r \in Updates, NEW b \in Updates, bot' = bot,
         \A v \in Updates : v # r => status'[v] = status[v] /\ lead'[v] = lead[v],
         lead'[r] = b, status[r] = "none" \/ lead[r] = b,
         pending \subseteq pending',
         \A v \in told \cup unsent \cup late : v # r => v \in (told \cup unsent \cup late)',
         bot = "on" /\ Outcome(b)' =>
           \A v \in Members(b)' : status'[v] \in {"done", "failed"} =>
             v \in (told \cup unsent \cup late)' \/ (Members(b) \cap pending)' # {}
  PROVE  OutcomeReachesChat'
<1>1. ASSUME bot = "on", NEW v \in Updates, status'[v] \in {"done", "failed"},
             NEW c, c = lead'[v], Outcome(c)'
      PROVE  v \in (told \cup unsent \cup late)' \/ (Members(c) \cap pending)' # {}
  <2>1. CASE c = b
    <3>1. v \in Members(b)'
      BY <1>1, <2>1 DEF Members
    <3> QED BY <1>1, <2>1, <3>1
  <2>2. CASE c # b
    <3>1. v # r /\ status[v] = status'[v] /\ lead[v] = c
      BY <1>1, <2>2
    <3>2. \A w \in Updates : w \in Members(c)' <=> w \in Members(c)
      BY <2>2 DEF Members
    <3>3. Members(c)' = Members(c) /\ r \notin Members(c)
      BY <2>2, <3>2 DEF Members
    <3>4. \A w \in Members(c) : status'[w] = status[w]
      BY <3>3 DEF Members
    <3>5. Outcome(c)
      BY <1>1, <3>3, <3>4 DEF Outcome, Complete
    <3> QED BY <1>1, <3>1, <3>3, <3>5 DEF OutcomeReachesChat
  <2> QED BY <2>1, <2>2
<1> QED BY <1>1 DEF OutcomeReachesChat

LEMMA CreateTold ==
  ASSUME TypeOK, OutcomeReachesChat, NEW r \in Updates, NEW b \in Updates, NEW s,
         r \notin WithRow, Create(r, b, s), bot' = bot
  PROVE  OutcomeReachesChat'
<1>1. /\ \A v \in Updates : v # r => status'[v] = status[v] /\ lead'[v] = lead[v]
      /\ lead'[r] = b /\ status'[r] = s /\ status[r] = "none"
      /\ pending \subseteq pending' /\ told' = told /\ unsent' = unsent /\ late \subseteq late'
      /\ s \in {"open", "duplicate", "failed"}
  BY DEF Create, WithRow, TypeOK, Hear
<1>2. r \in Members(b)' /\ \A v \in Members(b) : v \in Members(b)' /\ v # r /\ status'[v] = status[v]
  BY <1>1 DEF Members
<1>3. ASSUME bot = "on", Outcome(b)', NEW v \in Members(b)', status'[v] \in {"done", "failed"}
      PROVE  v \in (told \cup unsent \cup late)' \/ (Members(b) \cap pending)' # {}
  <2>1. CASE s = "open"
    BY <2>1, <1>1, <1>2, <1>3 DEF Outcome, Complete, Finished
  <2>2. CASE s = "failed"
    <3>1. r \in pending'
      BY <2>2, <1>3 DEF Create, Hear
    <3> QED BY <3>1, <1>2
  <2>3. CASE s = "duplicate"
    <3>1. v \in Updates /\ v # r /\ v \in Members(b) /\ status[v] \in {"done", "failed"} /\ lead[v] = b
      BY <2>3, <1>1, <1>3 DEF Members
    <3>2. Outcome(b)
      <4>1. \A w \in Members(b) : status[w] \in Finished /\ status[w] # "cancelled"
        BY <1>2, <1>3 DEF Outcome, Complete
      <4> QED BY <4>1 DEF Outcome, Complete
    <3>3. v \in told \cup unsent \cup late \/ Members(b) \cap pending # {}
      BY <3>1, <3>2, <1>3 DEF OutcomeReachesChat
    <3> QED BY <3>3, <1>1, <1>2
  <2> QED BY <1>1, <2>1, <2>2, <2>3
<1> HIDE DEF Outcome
<1> QED BY <1>1, <1>3, OneRowMoves

LEMMA OutcomeStep ==
  ASSUME TypeOK, Phases, Once, Leads, Talks, OutcomeReachesChat, [Next]_vars
  PROVE  OutcomeReachesChat'
<1>1. ASSUME Ask PROVE OutcomeReachesChat'
  BY <1>1, SameRows DEF Ask
<1>2. ASSUME Arrives PROVE OutcomeReachesChat'
  BY <1>2, SameRows DEF Arrives
<1>3. ASSUME Answer PROVE OutcomeReachesChat'
  BY <1>3, SameRows DEF Answer
<1>4. ASSUME Aborted PROVE OutcomeReachesChat'
  BY <1>4, SameRows DEF Aborted
<1>5. ASSUME Wakes PROVE OutcomeReachesChat'
  BY <1>5, SameRows DEF Wakes
<1>6. ASSUME Take PROVE OutcomeReachesChat'
  BY <1>6, SameRows DEF Take
<1>7. ASSUME PollFails PROVE OutcomeReachesChat'
  BY <1>7, SameRows DEF PollFails
<1>8. ASSUME PollRefused PROVE OutcomeReachesChat'
  BY <1>8, SameRows DEF PollRefused
<1>9. ASSUME Refuse PROVE OutcomeReachesChat'
  BY <1>9, SameRows DEF Refuse
<1>10. ASSUME NEW s \in Statuses, Store(s) PROVE OutcomeReachesChat'
  <2>1. Handled \in Updates /\ Handled = Cursor
    BY <1>10, HandledIs DEF Store, Handled, Cursor, Phases
  <2>2. Handled \notin WithRow
    <3>1. Cursor \in Int /\ Handled >= Cursor
      BY <2>1 DEF Cursor, TypeOK
    <3> QED BY <2>1, <3>1 DEF Once
  <2> QED BY <1>10, <2>1, <2>2, CreateTold DEF Store
<1>11. ASSUME Collect PROVE OutcomeReachesChat'
  BY <1>11, SameRows DEF Collect
<1>12. ASSUME NEW b \in Updates, NEW u \in Updates, NEW s \in Statuses, StoreMember(b, u, s)
       PROVE  OutcomeReachesChat'
  <2>1. u \notin WithRow
    BY <1>12 DEF StoreMember, First, Once
  <2> QED BY <1>12, <2>1, CreateTold DEF StoreMember
<1>13. ASSUME NEW g \in Groups, NEW u \in Updates, QuietTimer(g, u) PROVE OutcomeReachesChat'
  BY <1>13, SameRows DEF QuietTimer
<1>14. ASSUME NEW r \in Updates, NEW t \in {"done", "failed"}, Settle(r, t) PROVE OutcomeReachesChat'
  <2> DEFINE b == lead[r]
  <2>1. /\ \A v \in Updates : v # r => status'[v] = status[v] /\ lead'[v] = lead[v]
        /\ status'[r] # "none" /\ lead'[r] = b /\ b \in Updates /\ bot' = bot
        /\ pending' = Hear(r) /\ UNCHANGED <<told, unsent, late>>
    BY <1>14 DEF Settle, TypeOK
  <2>2. r \in Members(b)'
    BY <2>1 DEF Members
  <2> HIDE DEF b
  <2>3. bot = "on" => (Members(b) \cap pending)' # {}
    BY <2>1, <2>2 DEF Hear
  <2>4. pending \subseteq pending'
    BY <2>1 DEF Hear
  <2> QED BY <2>1, <2>3, <2>4, OneRowMoves DEF b
<1>15. ASSUME NEW r \in Updates, Requeue(r) PROVE OutcomeReachesChat'
  BY <1>15, SameRows DEF Requeue, Hear
<1>16. ASSUME NEW r \in Updates, Retry(r) PROVE OutcomeReachesChat'
  <2> DEFINE b == lead[r]
  <2>1. /\ \A v \in Updates : v # r => status'[v] = status[v] /\ lead'[v] = lead[v]
        /\ status'[r] = "open" /\ lead'[r] = b /\ b \in Updates /\ bot' = bot
        /\ pending' = pending
    BY <1>16 DEF Retry, TypeOK
  <2>2. \A v \in told \cup unsent \cup late : v # r => v \in (told \cup unsent \cup late)'
    BY <1>16 DEF Retry
  <2>3. r \in Members(b)'
    BY <2>1 DEF Members
  <2> HIDE DEF b
  <2>4. ~Outcome(b)'
    BY <2>1, <2>3 DEF Outcome, Complete, Finished
  <2> QED BY <2>1, <2>2, <2>4, OneRowMoves DEF b
<1>17. ASSUME NEW r \in Updates, Cancel(r) PROVE OutcomeReachesChat'
  <2> DEFINE b == lead[r]
  <2>1. /\ \A v \in Updates : v # r => status'[v] = status[v] /\ lead'[v] = lead[v]
        /\ status'[r] = "cancelled" /\ lead'[r] = b /\ b \in Updates /\ bot' = bot
        /\ pending' = pending /\ UNCHANGED <<told, unsent, late>>
    BY <1>17 DEF Cancel, TypeOK
  <2>2. r \in Members(b)'
    BY <2>1 DEF Members
  <2> HIDE DEF b
  <2>3. ~Outcome(b)'
    BY <2>1, <2>2 DEF Outcome
  <2> QED BY <2>1, <2>3, OneRowMoves DEF b
<1>18. ASSUME NEW r \in Updates, Notice(r) PROVE OutcomeReachesChat'
  <2>1. /\ UNCHANGED <<status, lead, bot, late>> /\ pending' = pending \ {r}
        /\ r \in pending /\ r \in WithRow
        /\ told \cup unsent \subseteq told' \cup unsent'
        /\ TellsRow(r) \/ TellsBatch(r) => Spoken(r) \subseteq told' \cup unsent'
    BY <1>18 DEF Notice, Sends, Silent, Talks
  <2>2. SUFFICES ASSUME bot = "on", NEW v \in Updates, status[v] \in {"done", "failed"},
                        Outcome(lead[v]), v \notin told \cup unsent \cup late
                 PROVE  v \in told' \cup unsent' \/ Members(lead[v]) \cap pending' # {}
    BY <2>1 DEF OutcomeReachesChat, Outcome, Members, Complete
  <2>3. Members(lead[v]) \cap pending # {}
    BY <2>2 DEF OutcomeReachesChat
  <2>4. CASE r \in Members(lead[v])
    <3>1. /\ lead[r] = lead[v] /\ status[r] \in Tellable /\ Complete(lead[v])
          /\ v \in WithRow
      BY <2>2, <2>4 DEF Outcome, Complete, Members, Finished, Tellable, WithRow
    <3>2. lead[v] \notin notified
      BY <2>2, <3>1 DEF Talks
    <3>3. CASE Single(r)
      <4>1. lead[v] = r /\ Single(v)
        BY <2>1, <3>1, <3>3 DEF Leads
      <4>2. v = r
        BY <4>1 DEF Leads
      <4> QED BY <2>1, <3>1, <3>3, <4>2 DEF TellsRow, Spoken
    <3>4. CASE ~Single(r)
      <4>1. v \in Members(lead[r])
        BY <3>1, <2>2 DEF Members
      <4> QED BY <2>1, <3>1, <3>2, <3>4, <4>1 DEF TellsBatch, Spoken
    <3> QED BY <3>3, <3>4
  <2>5. CASE r \notin Members(lead[v])
    BY <2>1, <2>3, <2>5
  <2> QED BY <2>4, <2>5
<1>19. ASSUME Stop PROVE OutcomeReachesChat'
  BY <1>19 DEF Stop, OutcomeReachesChat
<1>20. ASSUME PollerStopped PROVE OutcomeReachesChat'
  BY <1>20 DEF PollerStopped, OutcomeReachesChat
<1>21. ASSUME BotDown PROVE OutcomeReachesChat'
  BY <1>21 DEF BotDown, OutcomeReachesChat
<1>22. ASSUME NEW g \in Groups, NEW u \in Updates, StopFlush(g, u) PROVE OutcomeReachesChat'
  BY <1>22, SameRows DEF StopFlush
<1>23. ASSUME Exit PROVE OutcomeReachesChat'
  BY <1>23 DEF Exit, Forget, OutcomeReachesChat
<1>24. ASSUME Crash PROVE OutcomeReachesChat'
  BY <1>24 DEF Crash, Forget, OutcomeReachesChat
<1>25. ASSUME Restart PROVE OutcomeReachesChat'
  <2>1. Cursor = 1 /\ \A v \in Updates : v >= Cursor
    BY <1>25, BotAssumption DEF Restart, Cursor, Phases, Updates
  <2>2. WithRow = {}
    BY <2>1 DEF Once, WithRow
  <2>3. \A v \in Updates : status'[v] = "none"
    BY <1>25, <2>2 DEF Restart, WithRow
  <2> QED BY <2>3 DEF OutcomeReachesChat
<1>27. ASSUME NEW B \in SUBSET Updates, Reload(B) PROVE OutcomeReachesChat'
  BY <1>27, SameRows DEF Reload
<1>26. CASE UNCHANGED vars
  BY <1>26, SameRows DEF vars
<1> QED
  BY <1>1, <1>2, <1>3, <1>4, <1>5, <1>6, <1>7, <1>8, <1>9, <1>10, <1>11, <1>12, <1>13,
      <1>14, <1>15, <1>16, <1>17, <1>18, <1>19, <1>20, <1>21, <1>22, <1>23, <1>24,
      <1>25, <1>26, <1>27
     DEF Next, Polls, Handles, Stages, Queue, Stopping

-----------------------------------------------------------------------------
(***************************************************************************)
(* The inductive invariant and what follows from it.                       *)
(***************************************************************************)
Inv == TypeOK /\ Phases /\ Once /\ Kept /\ Leads /\ Talks /\ OutcomeReachesChat

LEMMA InitInv == Init => Inv
<1> SUFFICES ASSUME Init PROVE Inv
  OBVIOUS
<1>1. TypeOK
  BY BotAssumption DEF Init, TypeOK, Statuses
<1>2. WithRow = {} /\ \A b \in Updates : Members(b) = {}
  BY DEF Init, WithRow, Members
<1>3. Phases /\ Once
  BY <1>2, BotAssumption DEF Init, Phases, Once, Cursor, Updates
<1>4. Kept
  BY BotAssumption DEF Init, Kept, Cursor, Updates
<1>5. Leads /\ Talks
  BY <1>2 DEF Init, Leads, Talks
<1>6. OutcomeReachesChat
  BY DEF Init, OutcomeReachesChat
<1> QED BY <1>1, <1>3, <1>4, <1>5, <1>6 DEF Inv

LEMMA Invariant == Spec => []Inv
<1>1. Inv /\ [Next]_vars => Inv'
  BY TypeStep, PhasesStep, OnceStep, KeptStep, LeadsStep, TalksStep, OutcomeStep DEF Inv
<1> QED BY InitInv, <1>1, PTL DEF Spec

(***************************************************************************)
(* The variables keep their types, for every number of updates.            *)
(***************************************************************************)
THEOREM TypeCorrect == Spec => []TypeOK
<1>1. Inv => TypeOK
  BY DEF Inv
<1> QED BY Invariant, <1>1, PTL

(***************************************************************************)
(* No confirmed update is lost by an orderly course of things: polling,    *)
(* network failures, albums that overlap and stop() included.              *)
(***************************************************************************)
THEOREM NothingLostAlways == Spec => []NothingLost
<1>1. ASSUME Inv PROVE NothingLost
  <2>1. SUFFICES ASSUME NEW u \in 1..confirmed
                 PROVE  u \in settled \cup WithRow \cup InBuffers \cup InStaging
    BY DEF NothingLost
  <2>2. u \in Updates /\ u <= confirmed
    BY <1>1, BotAssumption DEF Inv, TypeOK, Updates
  <2>3. Held(u)
    BY <1>1, <2>2 DEF Inv, Kept
  <2> QED BY <2>3 DEF Held, InBuffers, InStaging
<1> QED BY Invariant, <1>1, PTL

(***************************************************************************)
(* Whatever the order in which the members of a batch finish, its chat     *)
(* hears of all of them, but for a message sent twice in vain and for      *)
(* members that come, or run again, after the batch's one notice.          *)
(***************************************************************************)
THEOREM OutcomeReachesChatAlways == Spec => []OutcomeReachesChat
<1>1. Inv => OutcomeReachesChat
  BY DEF Inv
<1> QED BY Invariant, <1>1, PTL

(***************************************************************************)
(* A batch is told whole, unless one of its files could not be staged or   *)
(* the queue made a unit of the rows there were.                           *)
(***************************************************************************)
THEOREM ToldWholeAlways == Spec => ToldWhole
<1>1. ASSUME Inv, [Next]_vars, NEW b \in notified' \ notified
      PROVE  staging[b] = {} \/ Members(b) \cap (unstaged \cup loaded) # {}
  <2>1. notified' \subseteq notified \/ \E r \in Updates : Notice(r)
    BY <1>1 DEF Next, vars, Polls, Ask, Arrives, Answer, Aborted, Wakes, Take,
                PollFails, PollRefused, Handles, Refuse, Store, Collect, Create,
                Stages, StoreMember, QuietTimer, Queue, Settle, Requeue, Retry, Cancel, Reload,
                Stop, Stopping, PollerStopped, BotDown, StopFlush, Exit, Crash, Forget, Restart
  <2>2. PICK r \in pending : b = lead[r] /\ ~Single(r)
    BY <1>1, <2>1 DEF Notice, TellsBatch
  <2>3. r \in WithRow /\ r \in unstaged \cup loaded
    BY <1>1, <2>2 DEF Inv, Talks
  <2> QED BY <2>2, <2>3 DEF Members, WithRow
<1>2. Inv /\ [Next]_vars =>
        [\A b \in notified' \ notified :
           staging[b] = {} \/ Members(b) \cap (unstaged \cup loaded) # {}]_vars
  BY <1>1
<1> QED BY Invariant, <1>2, PTL DEF Spec, ToldWhole
=============================================================================
