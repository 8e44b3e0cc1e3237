----------------------------- MODULE GameProofs -----------------------------
(***************************************************************************)
(* Theorems about Game, for every set of letters and signals and every      *)
(* length of the typed line, and about StatusThread, for every set of       *)
(* messages and every Delay.                                                *)
(*                                                                          *)
(* RunsEnd and RunsOut are what can be said of the ends that cleanups and   *)
(* messages come to without speaking of fairness: each step brings them     *)
(* nearer, but for a signal that comes for the only time.                   *)
(***************************************************************************)
EXTENDS Game, StatusThread, SequenceTheorems, TLAPS

(* The session: main, the cleanups and the signals.                         *)
(* How many of Resources a cleanup's resource is above the bottom.          *)
Rank == [r \in {"thread", "video", "text_mode", "tty"} |->
           IF r = "thread" THEN 1 ELSE IF r = "tty" THEN 3 ELSE 2]
Cleanups == DOMAIN Rank

Taken(n) == {r \in {"thread", "video", "tty"} : Rank[r] <= n}
Picture(n) == IF n >= 2 THEN "mode_X" ELSE "text"

Stacks == {<<>>, <<"thread">>, <<"video", "thread">>, <<"tty", "video", "thread">>}

SessionTypes ==
  /\ pc \in {"signals", "world", "take", "blank", "program", "settings", "push", "loop",
             "clock", "cleared", "pop"}
  /\ held \subseteq {"thread", "video", "tty"}
  /\ stack \in Stacks
  /\ frames \in Seq([for : {"main", "panic"} \cup Signals, in : Cleanups \cup {"none"}])
  /\ caught \subseteq Signals

(* While no cleanup runs, main has taken what is on the stack, and what it  *)
(* is about to push.                                                        *)
InMain ==
  frames = <<>> /\ end = "none" =>
    LET n == Len(stack)
    IN  /\ pc \in {"signals", "world"} => n = 0 /\ held = {} /\ screen = "text"
        /\ pc = "take" => n < 3 /\ held = Taken(n) /\ screen = Picture(n)
        /\ pc = "blank" => n = 1 /\ held = Taken(2) /\ screen = "text"
        /\ pc = "program" => n = 1 /\ held = Taken(2) /\ screen = "blank"
        /\ pc = "settings" => n = 2 /\ held = Taken(2) /\ screen = "mode_X"
        /\ pc = "push" => n < 3 /\ held = Taken(n + 1) /\ screen = Picture(n + 1)
        /\ pc = "loop" => n = 3 /\ held = Taken(3) /\ screen = "mode_X"
        /\ pc = "clock" => n = 3 /\ held = Taken(3) /\ screen = "blank"
        /\ pc = "cleared" => n = 3 /\ held = {"thread", "tty"} /\ screen = "text"
        /\ pc = "pop" => held = Taken(n) /\ screen = Picture(n)

(* ... and a cleanup that main runs takes the newest of them.               *)
MainPops ==
  frames # <<>> /\ frames[1].for = "main" /\ Len(frames) = 1 /\ end = "none" =>
    LET n == Len(stack)
        in == frames[1].in
    IN  /\ pc = "pop"
        /\ in = "none" => n > 0 /\ held = Taken(n) /\ screen = Picture(n)
        /\ in # "none" => /\ Rank[in] = n + 1 /\ held = Taken(n + 1)
                          /\ screen = IF in = "text_mode" THEN "blank" ELSE Picture(n + 1)

MainFirst == \A i \in 1 .. Len(frames) : frames[i].for = "main" => i = 1

(* A cleanup was on the stack above those that are left, and above those    *)
(* that a later run has unlinked.                                           *)
Nested ==
  \A i \in 1 .. Len(frames) : frames[i].in # "none" =>
    /\ Rank[frames[i].in] > Len(stack)
    /\ \A j \in (i + 1) .. Len(frames) :
         frames[j].in # "none" => Rank[frames[i].in] > Rank[frames[j].in]

(* What main has taken and not pushed is no cleanup's.                      *)
Depth == IF pc \in {"blank", "program"} \/ (pc = "push" /\ "tty" \notin held) THEN 1
         ELSE IF pc = "push" THEN 2 ELSE 3

NotPushed ==
  /\ Len(stack) <= Depth
  /\ \A i \in 1 .. Len(frames) : frames[i].in # "none" => Rank[frames[i].in] <= Depth
  /\ pc \in {"blank", "program"} => "video" \in held /\ "tty" \notin held

Under(r) == \E i \in 1 .. Len(frames) : frames[i].in # "none" /\ Rank[frames[i].in] = r

TtyOwned == "tty" \in held => Len(stack) = 3 \/ Under(3) \/ pc = "push"

ScreenOwned ==
  screen # "text" =>
    \/ Len(stack) >= 2 \/ Under(2)
    \/ pc \in {"blank", "program", "push"} /\ "video" \in held /\ "tty" \notin held

Mapped ==
  pc \notin {"clock", "cleared"} /\ (Len(stack) >= 2 \/ Under(2)) => "video" \in held

Ended ==
  end \notin {"none", "killed"} => stack = <<>> \/ ("tty" \notin held /\ screen = "text")

SessionInv ==
  /\ SessionTypes /\ InMain /\ MainPops /\ MainFirst /\ Nested /\ NotPushed
  /\ TtyOwned /\ ScreenOwned /\ Mapped /\ Ended /\ NeverTwice

----------------------------------------------------------------------------
LEMMA Pushed ==
  ASSUME NEW S, NEW s \in Seq(S), NEW x \in S
  PROVE  /\ <<x>> \o s \in Seq(S) /\ Len(<<x>> \o s) = Len(s) + 1
         /\ (<<x>> \o s)[1] = x /\ \A i \in 1 .. Len(s) : (<<x>> \o s)[i + 1] = s[i]
<1>1. <<x>> \in Seq(S) /\ Len(<<x>>) = 1 /\ Len(s) \in Nat
  OBVIOUS
<1>2. /\ <<x>> \o s \in Seq(S) /\ Len(<<x>> \o s) = 1 + Len(s)
      /\ \A i \in 1 .. (1 + Len(s)) : (<<x>> \o s)[i] = IF i <= 1 THEN <<x>>[i] ELSE s[i - 1]
  BY <1>1, ConcatProperties
<1>3. ASSUME NEW i \in 1 .. Len(s) PROVE (<<x>> \o s)[i + 1] = s[i]
  <2>1. i + 1 \in 1 .. (1 + Len(s)) /\ ~(i + 1 <= 1) /\ i + 1 - 1 = i
    BY <1>1
  <2> QED
    BY <1>2, <2>1
<1> QED
  BY <1>1, <1>2, <1>3

LEMMA PushedOnTwo ==
  ASSUME NEW S, NEW s \in Seq(S), NEW x \in S
  PROVE  Len(s) = 2 => <<x>> \o s = <<x, s[1], s[2]>>
<1> DEFINE t == <<x>> \o s
<1>1. t \in Seq(S) /\ Len(t) = Len(s) + 1
  BY Pushed
<1>2. t[1] = x
  BY Pushed
<1>3. \A i \in 1 .. Len(s) : t[i + 1] = s[i]
  BY Pushed
<1> HIDE DEF t
<1>4. ASSUME Len(s) = 2 PROVE t = <<x, s[1], s[2]>>
  <2>1. 1 \in 1 .. Len(s) /\ 2 \in 1 .. Len(s) /\ 1 + 1 = 2 /\ 2 + 1 = 3
    BY <1>4
  <2>2. t[2] = s[1] /\ t[3] = s[2]
    BY <1>3, <2>1
  <2>3. t = <<t[1], t[2], t[3]>>
    BY <1>1, <1>4
  <2> QED
    BY <1>2, <2>2, <2>3
<1> QED
  BY <1>4 DEF t

S3 == {"thread", "video", "tty"}

LEMMA StackShape ==
  ASSUME NEW s \in Stacks
  PROVE  /\ Len(s) \in 0..3 /\ (s = <<>> <=> Len(s) = 0)
         /\ s # <<>> => /\ Head(s) \in {"thread", "video", "tty"}
                        /\ Rank[Head(s)] = Len(s)
                        /\ Tail(s) \in Stacks /\ Len(Tail(s)) = Len(s) - 1
         /\ Len(s) < 3 => /\ <<Resources[Len(s) + 1]>> \o s \in Stacks
                          /\ Len(<<Resources[Len(s) + 1]>> \o s) = Len(s) + 1
<1> DEFINE P(t) == /\ Len(t) \in 0..3 /\ (t = <<>> <=> Len(t) = 0)
                   /\ t # <<>> => /\ Head(t) \in {"thread", "video", "tty"}
                                  /\ Rank[Head(t)] = Len(t)
                                  /\ Tail(t) \in Stacks /\ Len(Tail(t)) = Len(t) - 1
                   /\ Len(t) < 3 => /\ <<Resources[Len(t) + 1]>> \o t \in Stacks
                                    /\ Len(<<Resources[Len(t) + 1]>> \o t) = Len(t) + 1
<1>1. P(<<>>)
  <2>1. <<Resources[1]>> \o <<>> = <<"thread">>
    BY DEF Resources
  <2> QED
    BY <2>1 DEF Stacks
<1>2. P(<<"thread">>)
  <2>1. <<Resources[2]>> \o <<"thread">> = <<"video", "thread">>
    <3> DEFINE t == <<"video">> \o <<"thread">>
    <3>1. <<"thread">> \in Seq(S3) /\ "video" \in S3 /\ Len(<<"thread">>) = 1
      BY DEF S3
    <3>2. t \in Seq(S3) /\ Len(t) = 2 /\ t[1] = "video" /\ t[2] = "thread"
      BY <3>1, Pushed
    <3> HIDE DEF t
    <3>3. t = <<t[1], t[2]>>
      BY <3>2
    <3> QED
      BY <3>2, <3>3 DEF t, Resources
  <2> QED
    BY <2>1 DEF Stacks, Rank
<1>3. P(<<"video", "thread">>)
  <2>1. <<Resources[3]>> \o <<"video", "thread">> = <<"tty", "video", "thread">>
    <3> DEFINE u == <<"video", "thread">>
    <3>1. u \in Seq(S3) /\ "tty" \in S3 /\ Len(u) = 2 /\ u[1] = "video" /\ u[2] = "thread"
      BY DEF S3
    <3> HIDE DEF u
    <3>2. <<"tty">> \o u = <<"tty", u[1], u[2]>>
      BY <3>1, PushedOnTwo
    <3> QED
      BY <3>1, <3>2 DEF u, Resources
  <2>2. Tail(<<"video", "thread">>) = <<"thread">>
    OBVIOUS
  <2> QED
    BY <2>1, <2>2 DEF Stacks, Rank
<1>4. P(<<"tty", "video", "thread">>)
  <2>1. Tail(<<"tty", "video", "thread">>) = <<"video", "thread">>
    OBVIOUS
  <2> QED
    BY <2>1 DEF Stacks, Rank
<1>5. P(s)
  <2> HIDE DEF P
  <2> QED
    BY <1>1, <1>2, <1>3, <1>4 DEF Stacks
<1> QED
  BY <1>5

LEMMA Ranks ==
  /\ Cleanups = {"thread", "video", "text_mode", "tty"}
  /\ Rank["thread"] = 1 /\ Rank["video"] = 2 /\ Rank["text_mode"] = 2 /\ Rank["tty"] = 3
  /\ \A r \in Cleanups : Rank[r] \in 1..3
  /\ "none" \notin Cleanups
<1>1. Cleanups = {"thread", "video", "text_mode", "tty"}
  BY DEF Rank, Cleanups
<1>2. /\ Rank["thread"] = 1 /\ Rank["video"] = 2 /\ Rank["text_mode"] = 2 /\ Rank["tty"] = 3
  BY DEF Rank
<1>3. \A r \in Cleanups : Rank[r] \in 1..3
  BY <1>1, <1>2
<1> QED
  BY <1>1, <1>2, <1>3

LEMMA TakenAre ==
  /\ Taken(0) = {} /\ Taken(1) = {"thread"}
  /\ Taken(2) = {"thread", "video"} /\ Taken(3) = {"thread", "video", "tty"}
  /\ \A n \in 0..3 : ("tty" \in Taken(n) <=> n = 3) /\ ("video" \in Taken(n) <=> n >= 2)
  /\ \A n \in 0..3 : (n >= 2 => Picture(n) = "mode_X") /\ (n < 2 => Picture(n) = "text")
<1>1. \A n \in 0..3 : ("tty" \in Taken(n) <=> n = 3) /\ ("video" \in Taken(n) <=> n >= 2)
  BY Ranks DEF Taken
<1>2. Taken(0) = {} /\ Taken(1) = {"thread"}
  BY Ranks DEF Taken
<1>3. Taken(2) = {"thread", "video"} /\ Taken(3) = {"thread", "video", "tty"}
  BY Ranks DEF Taken
<1> QED
  BY <1>1, <1>2, <1>3 DEF Picture

LEMMA NextLevel ==
  ASSUME NEW n \in Nat, n < 3
  PROVE  /\ "tty" \in Taken(n + 1) <=> n = 2
         /\ "video" \in Taken(n + 1) <=> n >= 1
         /\ Picture(n + 1) # "text" <=> n >= 1
<1>1. n + 1 \in 0..3 /\ (n + 1 = 3 <=> n = 2) /\ (n + 1 >= 2 <=> n >= 1)
  OBVIOUS
<1>2. ("tty" \in Taken(n + 1) <=> n = 2) /\ ("video" \in Taken(n + 1) <=> n >= 1)
  BY <1>1, TakenAre
<1>3. Picture(n + 1) # "text" <=> n >= 1
  BY <1>1 DEF Picture
<1> QED
  BY <1>2, <1>3

LEMMA SessionInit == ASSUME InitSession PROVE SessionInv
<1>1. frames = <<>> /\ stack = <<>> /\ Len(stack) = 0 /\ Len(frames) = 0
  BY DEF InitSession
<1>2. SessionTypes
  BY <1>1, EmptySeq DEF InitSession, SessionTypes, Stacks
<1> QED
  BY <1>1, <1>2 DEF InitSession, SessionInv, InMain, MainPops, MainFirst, Nested, NotPushed, Depth,
        TtyOwned, ScreenOwned, Mapped, Ended, NeverTwice, Under

LEMMA SameSession == ASSUME SessionInv, UNCHANGED session PROVE SessionInv'
<1>1. UNCHANGED <<pc, held, screen, stack, frames, caught, end, again>>
  BY DEF session
<1>2. SessionTypes' /\ InMain' /\ MainPops'
  BY <1>1 DEF SessionInv, SessionTypes, InMain, MainPops
<1>3. MainFirst' /\ Nested' /\ NotPushed'
  BY <1>1 DEF SessionInv, MainFirst, Nested, NotPushed, Depth
<1>4. (Under(2) <=> Under(2)') /\ (Under(3) <=> Under(3)')
  BY <1>1 DEF Under
<1>5. TtyOwned' /\ ScreenOwned' /\ Mapped' /\ Ended' /\ NeverTwice'
  BY <1>1, <1>4 DEF SessionInv, TtyOwned, ScreenOwned, Mapped, Ended, NeverTwice
<1> QED
  BY <1>2, <1>3, <1>5 DEF SessionInv

LEMMA PanicFrame ==
  <<[for |-> "panic", in |-> "none"]>> \in Seq([for : {"main", "panic"} \cup Signals, in : Cleanups \cup {"none"}])
OBVIOUS

(* What holds of main between its steps is all there is to know.            *)
LEMMA MainRests ==
  frames' = <<>> /\ end' = "none" /\ SessionTypes' /\ InMain' /\ NeverTwice' => SessionInv'
<1>1. ASSUME frames' = <<>>, end' = "none", SessionTypes', InMain', NeverTwice'
      PROVE  SessionInv'
  <2>1. Len(frames') = 0
    BY <1>1, EmptySeq
  <2>2. MainPops' /\ MainFirst' /\ Nested' /\ Ended'
    BY <1>1, <2>1 DEF MainPops, MainFirst, Nested, Ended
  <2>2a. ~Under(2)' /\ ~Under(3)'
    BY <2>1 DEF Under
  <2>3. Len(stack') \in 0..3
    BY <1>1, StackShape DEF SessionTypes
  <2>4. PICK n \in Nat : n = Len(stack')
    BY <2>3
  <2>5. n <= 3
    BY <2>3, <2>4
  <2> DEFINE Owned == /\ "tty" \in held' => n = 3 \/ pc' = "push"
                      /\ screen' # "text" =>
                           \/ n >= 2
                           \/ pc' \in {"blank", "program", "push"} /\ "video" \in held' /\ "tty" \notin held'
                      /\ pc' \notin {"clock", "cleared"} /\ n >= 2 => "video" \in held'
             Below == /\ pc' \in {"blank", "program"} => n <= 1 /\ "video" \in held' /\ "tty" \notin held'
                      /\ pc' = "push" => n <= 2 /\ ("tty" \notin held' => n <= 1)
  <2>6. ASSUME pc' \in {"signals", "world"} PROVE Owned /\ Below
    <3>1. n = 0 /\ held' = {} /\ screen' = "text"
      BY <1>1, <2>4, <2>6, <2>1 DEF InMain
    <3> QED
      BY <3>1, <2>6
  <2>7. ASSUME pc' \in {"take", "pop"} PROVE Owned /\ Below
    <3>1. held' = Taken(n) /\ screen' = Picture(n)
      BY <1>1, <2>4, <2>7 DEF InMain
    <3>2. /\ "tty" \in Taken(n) <=> n = 3
          /\ "video" \in Taken(n) <=> n >= 2
          /\ Picture(n) # "text" => n >= 2
      BY <2>5, TakenAre DEF Picture
    <3>3. Below
      BY <2>7
    <3>4. Owned
      BY <3>1, <3>2, <2>7
    <3> QED
      BY <3>3, <3>4
  <2>8. ASSUME pc' = "push" PROVE Owned /\ Below
    <3>1. n < 3 /\ held' = Taken(n + 1) /\ screen' = Picture(n + 1)
      BY <1>1, <2>4, <2>8 DEF InMain
    <3>2. /\ "tty" \in held' <=> n = 2
          /\ "video" \in held' <=> n >= 1
          /\ screen' # "text" <=> n >= 1
      BY <3>1, NextLevel
    <3>3. Owned
      BY <3>1, <3>2, <2>8
    <3>4. Below
      BY <3>1, <3>2, <2>8
    <3> QED
      BY <3>3, <3>4
  <2>9. ASSUME pc' \in {"blank", "program", "settings"} PROVE Owned /\ Below
    <3>1. n = (IF pc' = "settings" THEN 2 ELSE 1) /\ held' = Taken(2)
      BY <1>1, <2>4, <2>9 DEF InMain
    <3>2. "video" \in held' /\ "tty" \notin held'
      BY <3>1, TakenAre
    <3> QED
      BY <3>1, <3>2, <2>9
  <2>10. ASSUME pc' \in {"loop", "clock", "cleared"} PROVE Owned /\ Below
    <3>1. n = 3 /\ (pc' = "loop" => held' = Taken(3))
      BY <1>1, <2>4, <2>10 DEF InMain
    <3>2. pc' = "loop" => "video" \in held'
      BY <3>1, TakenAre
    <3> QED
      BY <3>1, <3>2, <2>10
  <2>11. pc' \in {"signals", "world", "take", "blank", "program", "settings", "push", "loop", "clock", "cleared", "pop"}
    BY <1>1 DEF SessionTypes
  <2>12. Owned /\ Below
    BY <2>6, <2>7, <2>8, <2>9, <2>10, <2>11
  <2>13. TtyOwned' /\ ScreenOwned' /\ Mapped'
    BY <2>12, <2>4, <2>2a DEF TtyOwned, ScreenOwned, Mapped
  <2>14. NotPushed'
    <3>1. n <= Depth'
      BY <2>12, <2>5 DEF Depth
    <3> QED
      BY <3>1, <2>12, <2>4, <2>1 DEF NotPushed
  <2> QED
    BY <1>1, <2>2, <2>13, <2>14 DEF SessionInv
<1> QED
  BY <1>1

LEMMA FailKeeps ==
  ASSUME SessionInv, frames = <<>>, end = "none", Fail, SessionTypes',
         UNCHANGED <<held, screen, stack, end, again>>
  PROVE  SessionInv'
<1>1. /\ Len(frames) = 0 /\ Len(frames') = 1
      /\ frames'[1] = [for |-> "panic", in |-> "none"]
      /\ frames'[1].for = "panic" /\ frames'[1].in = "none" /\ frames' # <<>>
      /\ UNCHANGED <<pc, held, screen, stack, end, again>>
  BY DEF Fail
<1>2. \A i \in 1 .. Len(frames') : i = 1
  BY <1>1
<1>3. \A i \in 1 .. Len(frames') : frames'[i].in = "none" /\ frames'[i].for = "panic"
  BY <1>1, <1>2
<1>4. InMain' /\ MainPops' /\ MainFirst' /\ Nested'
  BY <1>1, <1>3 DEF InMain, MainPops, MainFirst, Nested
<1>5. ~Under(2) /\ ~Under(3) /\ ~Under(2)' /\ ~Under(3)'
  BY <1>1, <1>3 DEF Under
<1>6. NotPushed'
  BY <1>1, <1>3 DEF SessionInv, NotPushed, Depth
<1>7. TtyOwned' /\ ScreenOwned' /\ Mapped' /\ Ended' /\ NeverTwice'
  BY <1>1, <1>5 DEF SessionInv, TtyOwned, ScreenOwned, Mapped, Ended, NeverTwice
<1> QED
  BY <1>4, <1>6, <1>7 DEF SessionInv

(* main's steps before the loop, ...                                        *)
LEMMA StartKeeps ==
  ASSUME SessionInv, NEW sane, CleanOnSignals \/ BuildWorld(sane)
  PROVE  SessionInv'
<1>1. /\ frames = <<>> /\ end = "none" /\ pc \in {"signals", "world"}
      /\ UNCHANGED <<held, screen, stack, nonblock, end, again>>
      /\ caught' \subseteq Signals
      /\ Fail \/ (pc' \in {"world", "take"} /\ frames' = frames)
  <2>1. caught \subseteq Signals
    BY DEF SessionInv, SessionTypes
  <2> QED
    BY <2>1 DEF CleanOnSignals, BuildWorld, At, Go
<1>2. CASE Fail
  <2>1. SessionTypes'
    BY <1>1, <1>2, PanicFrame DEF SessionInv, SessionTypes, Fail
  <2> QED
    BY <1>1, <1>2, <2>1, FailKeeps
<1>3. CASE pc' \in {"world", "take"} /\ frames' = frames
  <2>1. SessionTypes'
    BY <1>1, <1>3 DEF SessionInv, SessionTypes
  <2>2. InMain'
    <3>1. stack' = stack /\ held' = {} /\ screen' = "text" /\ Len(stack) = 0
      BY <1>1 DEF SessionInv, InMain
    <3>2. Taken(0) = {} /\ Picture(0) = "text"
      BY TakenAre
    <3> QED
      BY <1>3, <3>1, <3>2 DEF InMain
  <2>3. NeverTwice'
    BY <1>1, <1>3 DEF SessionInv, NeverTwice
  <2> QED
    BY <1>1, <1>3, <2>1, <2>2, <2>3, MainRests
<1> QED
  BY <1>1, <1>2, <1>3

LEMMA Wants ==
  ASSUME Len(stack) \in Nat, Len(stack) < 3
  PROVE  /\ Wanted = "thread" <=> Len(stack) = 0
         /\ Wanted = "video" <=> Len(stack) = 1
         /\ Wanted = "tty" <=> Len(stack) = 2
<1>1. Resources[1] = "thread" /\ Resources[2] = "video" /\ Resources[3] = "tty"
  BY DEF Resources
<1>2. \/ Len(stack) = 0 /\ Len(stack) + 1 = 1
      \/ Len(stack) = 1 /\ Len(stack) + 1 = 2
      \/ Len(stack) = 2 /\ Len(stack) + 1 = 3
  <2>1. \A n \in Nat : n < 3 => (n = 0 /\ n + 1 = 1) \/ (n = 1 /\ n + 1 = 2) \/ (n = 2 /\ n + 1 = 3)
    OBVIOUS
  <2> QED
    BY <2>1, Zenon
<1> QED
  BY <1>1, <1>2 DEF Wanted

(* A step of main that fails does not change what is taken, and one that    *)
(* goes on is in the place where its resources belong.                      *)
LEMMA GoesOn ==
  ASSUME SessionInv, frames = <<>>, end = "none",
         \/ Fail /\ SessionTypes' /\ UNCHANGED <<held, screen, stack, end, again>>
         \/ frames' = <<>> /\ end' = "none" /\ SessionTypes' /\ InMain' /\ NeverTwice'
  PROVE  SessionInv'
<1>1. CASE Fail /\ SessionTypes' /\ UNCHANGED <<held, screen, stack, end, again>>
  BY <1>1, FailKeeps
<1>2. CASE frames' = <<>> /\ end' = "none" /\ SessionTypes' /\ InMain' /\ NeverTwice'
  BY <1>2, MainRests
<1> QED
  BY <1>1, <1>2

LEMMA FailTypes ==
  ASSUME SessionTypes, Fail, UNCHANGED <<held, stack>>, caught' \subseteq Signals
  PROVE  SessionTypes'
BY PanicFrame DEF SessionTypes, Fail

LEMMA TakeKeeps ==
  ASSUME SessionInv, CreateThread \/ OpenMemory \/ SetTerminal
  PROVE  SessionInv'
<1>1. /\ SessionTypes /\ InMain /\ NeverTwice
      /\ frames = <<>> /\ end = "none" /\ pc \in {"take", "settings"}
  BY DEF SessionInv, CreateThread, OpenMemory, SetTerminal, At
<1>2. Len(stack) \in Nat /\ Len(stack) < 3
  <2>1. Len(stack) \in 0..3
    BY <1>1, StackShape DEF SessionTypes
  <2>2. (pc = "take" => Len(stack) < 3) /\ (pc = "settings" => Len(stack) = 2)
    BY <1>1 DEF InMain
  <2>3. Len(stack) < 3 \/ Len(stack) = 2
    BY <1>1, <2>2
  <2>4. \A n \in 0..3 : n < 3 \/ n = 2 => n \in Nat /\ n < 3
    OBVIOUS
  <2> QED
    BY <2>1, <2>3, <2>4, Zenon
<1>3. UNCHANGED <<screen, stack, caught, nonblock, end, again>>
  BY DEF CreateThread, OpenMemory, SetTerminal, Take
<1>4. CASE Fail
  <2>1. UNCHANGED held
    <3>1. pc' = pc /\ frames' # frames
      BY <1>1, <1>4 DEF Fail
    <3> QED
      BY <3>1 DEF CreateThread, OpenMemory, SetTerminal, Take
  <2>2. SessionTypes'
    BY <1>1, <1>3, <1>4, <2>1, FailTypes DEF SessionTypes
  <2> QED
    BY <1>1, <1>3, <1>4, <2>1, <2>2, GoesOn
<1>5. CASE ~Fail
  <2>1. frames' = <<>> /\ end' = "none" /\ pc' \in {"push", "blank"}
    BY <1>1, <1>3, <1>5 DEF CreateThread, OpenMemory, SetTerminal, Take, Go
  <2>2. NeverTwice'
    BY <1>1, <1>3 DEF NeverTwice
  <2>3. CASE CreateThread
    <3>1. Len(stack) = 0 /\ pc = "take" /\ pc' = "push" /\ held' = held \cup {"thread"}
      BY <1>2, <1>5, <2>3, Wants DEF CreateThread, Take, Go, At
    <3>2. held' = Taken(1) /\ screen' = Picture(1)
      <4>1. held = Taken(0) /\ screen = Picture(0)
        BY <1>1, <3>1 DEF InMain
      <4>2. held' = {"thread"} /\ screen' = "text"
        BY <4>1, <3>1, <1>3, TakenAre DEF Picture
      <4> QED
        BY <4>2, TakenAre DEF Picture
    <3>3. SessionTypes'
      <4>1. held' \subseteq {"thread", "video", "tty"}
        BY <1>1, <3>1 DEF SessionTypes
      <4> QED
        BY <4>1, <1>1, <1>3, <2>1 DEF SessionTypes
    <3>4. InMain'
      BY <1>3, <2>1, <3>1, <3>2 DEF InMain
    <3> QED
      BY <1>1, <2>1, <2>2, <3>3, <3>4, GoesOn
  <2>4. CASE OpenMemory
    <3>1. Len(stack) = 1 /\ pc = "take" /\ pc' = "blank" /\ held' = held \cup {"video"}
      BY <1>2, <1>5, <2>4, Wants DEF OpenMemory, Take, Go, At
    <3>2. held' = Taken(2) /\ screen' = "text"
      <4>1. held = Taken(1) /\ screen = Picture(1)
        BY <1>1, <3>1 DEF InMain
      <4>2. held' = {"thread", "video"} /\ screen' = "text"
        BY <4>1, <3>1, <1>3, TakenAre DEF Picture
      <4> QED
        BY <4>2, TakenAre DEF Picture
    <3>3. SessionTypes'
      <4>1. held' \subseteq {"thread", "video", "tty"}
        BY <1>1, <3>1 DEF SessionTypes
      <4> QED
        BY <4>1, <1>1, <1>3, <2>1 DEF SessionTypes
    <3>4. InMain'
      BY <1>3, <2>1, <3>1, <3>2 DEF InMain
    <3> QED
      BY <1>1, <2>1, <2>2, <3>3, <3>4, GoesOn
  <2>5. CASE SetTerminal
    <3>1. Len(stack) = 2 /\ pc = "settings" /\ pc' = "push" /\ held' = held \cup {"tty"}
      BY <1>2, <1>5, <2>5, Wants DEF SetTerminal, Take, Go, At
    <3>2. held' = Taken(3) /\ screen' = Picture(3)
      <4>1. held = Taken(2) /\ screen = "mode_X"
        BY <1>1, <3>1 DEF InMain
      <4>2. held' = {"thread", "video", "tty"} /\ screen' = "mode_X"
        BY <4>1, <3>1, <1>3, TakenAre
      <4> QED
        BY <4>2, TakenAre DEF Picture
    <3>3. SessionTypes'
      <4>1. held' \subseteq {"thread", "video", "tty"}
        BY <1>1, <3>1 DEF SessionTypes
      <4> QED
        BY <4>1, <1>1, <1>3, <2>1 DEF SessionTypes
    <3>4. InMain'
      BY <1>3, <2>1, <3>1, <3>2 DEF InMain
    <3> QED
      BY <1>1, <2>1, <2>2, <3>3, <3>4, GoesOn
  <2> QED
    BY <2>3, <2>4, <2>5
<1> QED
  BY <1>4, <1>5

(* What main has on its way, in sets.                                       *)
LEMMA MainKnows ==
  ASSUME InMain, frames = <<>>, end = "none"
  PROVE  /\ pc = "take" => Len(stack) < 3 /\ held = Taken(Len(stack)) /\ screen = Picture(Len(stack))
         /\ pc = "blank" => Len(stack) = 1 /\ held = Taken(2)
         /\ pc = "program" => Len(stack) = 1 /\ held = Taken(2)
         /\ pc = "push" => /\ Len(stack) < 3 /\ held = Taken(Len(stack) + 1)
                           /\ screen = Picture(Len(stack) + 1)
         /\ pc = "loop" => Len(stack) = 3 /\ held = Taken(3) /\ screen = "mode_X"
         /\ pc = "clock" => Len(stack) = 3 /\ held = Taken(3)
         /\ pc = "cleared" => screen = "text"
         /\ pc = "pop" => held = Taken(Len(stack)) /\ screen = Picture(Len(stack))
BY DEF InMain

LEMMA ModeKeeps ==
  ASSUME SessionInv, SetModeX \/ ClockFails \/ ClearModeX \/ LeaveLoop
  PROVE  SessionInv'
<1>1. SessionTypes /\ InMain /\ NeverTwice /\ frames = <<>> /\ end = "none"
  BY DEF SessionInv, SetModeX, ClockFails, ClearModeX, LeaveLoop, At
<1>2. UNCHANGED <<stack, caught, frames, end, again>>
  BY DEF SetModeX, ClockFails, ClearModeX, LeaveLoop
<1>3. /\ pc' \in {"program", "push", "clock", "cleared", "pop"}
      /\ held' \subseteq held
      /\ pc \notin {"clock", "cleared"} \/ pc' = "cleared"
  BY DEF SetModeX, ClockFails, ClearModeX, LeaveLoop, At, Go, Unmap
<1>4. SessionTypes'
  BY <1>1, <1>2, <1>3 DEF SessionTypes
<1>5. NeverTwice'
  BY <1>1, <1>2, <1>3 DEF NeverTwice
<1>6. InMain'
  <2>1. CASE SetModeX
    <3>1. \/ pc = "blank" /\ pc' = "program" /\ screen' = "blank" /\ held' = held
          \/ pc = "program" /\ pc' = "push" /\ screen' = "mode_X" /\ held' = held
      BY <2>1 DEF SetModeX, At, Go, VGABlank, ProgramModeX
    <3>2. Len(stack) = 1 /\ held' = Taken(2)
      BY <1>1, <3>1, MainKnows
    <3>3. 1 + 1 = 2 /\ Picture(2) = "mode_X"
      BY DEF Picture
    <3> QED
      BY <1>2, <3>1, <3>2, <3>3 DEF InMain
  <2>2. CASE ClockFails
    <3>1. pc = "loop" /\ pc' = "clock" /\ screen' = "blank" /\ held' = held
      BY <2>2 DEF ClockFails, At, Go, VGABlank
    <3>2. Len(stack) = 3 /\ held' = Taken(3)
      BY <1>1, <3>1, MainKnows
    <3> QED
      BY <1>2, <3>1, <3>2 DEF InMain
  <2>3. CASE ClearModeX
    <3>1. pc = "clock" /\ pc' = "cleared" /\ screen' = "text" /\ held' = held \ {"video"}
      BY <2>3 DEF ClearModeX, At, Go, SetTextMode3, Unmap
    <3>2. Len(stack) = 3 /\ held = Taken(3)
      BY <1>1, <3>1, MainKnows
    <3>3. held' = {"thread", "tty"}
      BY <3>1, <3>2, TakenAre
    <3> QED
      BY <1>2, <3>1, <3>2, <3>3 DEF InMain
  <2>4. CASE LeaveLoop
    <3>1. pc = "loop" /\ pc' = "pop" /\ screen' = screen /\ held' = held
      BY <2>4 DEF LeaveLoop, At, Go
    <3>2. Len(stack) = 3 /\ held' = Taken(3) /\ screen' = "mode_X"
      BY <1>1, <3>1, MainKnows
    <3>3. Picture(3) = "mode_X"
      BY DEF Picture
    <3> QED
      BY <1>2, <3>1, <3>2, <3>3 DEF InMain
  <2> QED
    BY <2>1, <2>2, <2>3, <2>4
<1> QED
  BY <1>1, <1>2, <1>4, <1>5, <1>6, GoesOn

LEMMA NonblockKeeps == ASSUME SessionInv, SetNonblock PROVE SessionInv'
<1>1. /\ SessionTypes /\ InMain /\ NeverTwice
      /\ frames = <<>> /\ end = "none" /\ pc = "take" /\ Wanted = "tty"
      /\ UNCHANGED <<held, screen, stack, caught, end, again>>
      /\ Fail \/ (pc' = "settings" /\ UNCHANGED frames)
  BY DEF SessionInv, SetNonblock, At, Go
<1>2. CASE Fail
  <2>1. SessionTypes'
    BY <1>1, <1>2, FailTypes DEF SessionTypes
  <2> QED
    BY <1>1, <1>2, <2>1, GoesOn
<1>3. CASE pc' = "settings" /\ UNCHANGED frames
  <2>1. Len(stack) = 2
    <3>1. Len(stack) \in Nat
      <4>1. Len(stack) \in 0..3
        BY <1>1, StackShape DEF SessionTypes
      <4>2. \A n \in 0..3 : n \in Nat
        OBVIOUS
      <4> QED
        BY <4>1, <4>2
    <3>2. Len(stack) < 3
      BY <1>1, MainKnows
    <3> QED
      BY <1>1, <3>1, <3>2, Wants
  <2>2. held = Taken(2) /\ screen = "mode_X"
    <3>1. held = Taken(Len(stack)) /\ screen = Picture(Len(stack))
      BY <1>1, MainKnows
    <3> QED
      BY <2>1, <3>1 DEF Picture
  <2>3. SessionTypes' /\ NeverTwice'
    BY <1>1, <1>3 DEF SessionTypes, NeverTwice
  <2>4. InMain'
    BY <1>1, <1>3, <2>1, <2>2 DEF InMain
  <2> QED
    BY <1>1, <1>3, <2>3, <2>4, GoesOn
<1> QED
  BY <1>1, <1>2, <1>3

LEMMA PushKeeps == ASSUME SessionInv, PushCleanup PROVE SessionInv'
<1>1. /\ SessionTypes /\ InMain /\ NeverTwice
      /\ frames = <<>> /\ end = "none" /\ pc = "push"
      /\ UNCHANGED <<held, screen, caught, end, again>>
  BY DEF SessionInv, PushCleanup, At
<1>2. stack \in Stacks /\ Len(stack) < 3
  BY <1>1, MainKnows DEF SessionTypes
<1>3. \/ Fail /\ UNCHANGED stack
      \/ /\ stack' = <<Resources[Len(stack) + 1]>> \o stack /\ UNCHANGED frames
         /\ pc' = IF Len(stack) + 1 < Len(Resources) THEN "take" ELSE "loop"
  BY DEF PushCleanup, Go, Wanted
<1>4. CASE Fail /\ UNCHANGED stack
  <2>1. SessionTypes'
    BY <1>1, <1>4, FailTypes DEF SessionTypes
  <2> QED
    BY <1>1, <1>4, <2>1, GoesOn
<1>5. CASE /\ stack' = <<Resources[Len(stack) + 1]>> \o stack /\ UNCHANGED frames
           /\ pc' = IF Len(stack) + 1 < Len(Resources) THEN "take" ELSE "loop"
  <2>1. stack' \in Stacks /\ Len(stack') = Len(stack) + 1 /\ Len(stack) \in 0..3
    BY <1>2, <1>5, StackShape
  <2>2. Len(Resources) = 3
    BY DEF Resources
  <2>3. PICK n \in 0..3 : n = Len(stack)
    BY <2>1
  <2>4. n < 3 /\ Len(stack') = n + 1 /\ held' = Taken(n + 1) /\ screen' = Picture(n + 1)
    <3>1. held = Taken(Len(stack) + 1) /\ screen = Picture(Len(stack) + 1)
      BY <1>1, MainKnows
    <3> QED
      BY <3>1, <2>1, <2>3, <1>1, <1>2
  <2>5. pc' = IF n + 1 < 3 THEN "take" ELSE "loop"
    BY <1>5, <2>2, <2>3
  <2>6. SessionTypes'
    BY <1>1, <1>5, <2>1, <2>5 DEF SessionTypes
  <2>7. NeverTwice'
    BY <1>1 DEF NeverTwice
  <2>8. InMain'
    <3>1. CASE n + 1 < 3
      <4>1. pc' = "take"
        BY <2>5, <3>1
      <4>2. Len(stack') < 3 /\ held' = Taken(Len(stack')) /\ screen' = Picture(Len(stack'))
        BY <2>4, <3>1
      <4> QED
        BY <4>1, <4>2 DEF InMain
    <3>2. CASE ~(n + 1 < 3)
      <4>1. pc' = "loop"
        BY <2>5, <3>2
      <4>2. n + 1 = 3 /\ Picture(3) = "mode_X"
        <5>1. \A m \in 0..3 : ~(m + 1 < 3) /\ m < 3 => m + 1 = 3
          OBVIOUS
        <5>2. n + 1 = 3
          BY <5>1, <2>3, <2>4, <3>2, Zenon
        <5> QED
          BY <5>2 DEF Picture
      <4>3. Len(stack') = 3 /\ held' = Taken(3) /\ screen' = "mode_X"
        BY <2>4, <4>2
      <4> QED
        BY <4>1, <4>3 DEF InMain
    <3> QED
      BY <3>1, <3>2
  <2> QED
    BY <1>1, <1>5, <2>6, <2>7, <2>8, GoesOn
<1> QED
  BY <1>3, <1>4, <1>5

LEMMA EndsKeeps ==
  ASSUME SessionInv, UNCHANGED <<pc, screen, stack, frames, caught, again>>, end' # "none",
         held' = held \/ (pc = "cleared" /\ held' = held \ {"tty"}), Ended'
  PROVE  SessionInv'
<1>1. InMain' /\ MainPops'
  BY DEF InMain, MainPops
<1>2. SessionTypes' /\ MainFirst' /\ Nested' /\ NeverTwice'
  BY DEF SessionInv, SessionTypes, MainFirst, Nested, NeverTwice
<1>3. /\ UNCHANGED <<pc, screen, stack, frames>>
      /\ held' = held \/ (pc = "cleared" /\ held' = held \ {"tty"})
      /\ NotPushed /\ TtyOwned /\ ScreenOwned /\ Mapped
  BY DEF SessionInv
<1>4. (Under(2) <=> Under(2)') /\ (Under(3) <=> Under(3)')
  BY <1>3 DEF Under
<1>5. NotPushed' /\ TtyOwned' /\ ScreenOwned' /\ Mapped'
  <2>1. CASE held' = held
    BY <1>3, <1>4, <2>1 DEF NotPushed, Depth, TtyOwned, ScreenOwned, Mapped
  <2>2. CASE pc = "cleared" /\ held' = held \ {"tty"}
    <3>1. Depth' = Depth
      BY <1>3, <2>2 DEF Depth
    <3>2. NotPushed'
      BY <1>3, <3>1, <2>2 DEF NotPushed
    <3> QED
      BY <1>3, <1>4, <2>2, <3>2 DEF TtyOwned, ScreenOwned, Mapped
  <2> QED
    BY <1>3, <2>1, <2>2
<1> QED
  BY <1>1, <1>2, <1>5 DEF SessionInv

LEMMA ExitKeeps == ASSUME SessionInv, Exit \/ ClockExit \/ Finish PROVE SessionInv'
<1>1. UNCHANGED <<pc, screen, stack, frames, caught, again>>
  BY DEF Exit, ClockExit, Finish
<1>2. held' = held \/ (pc = "cleared" /\ held' = held \ {"tty"})
  BY DEF Exit, ClockExit, Finish, At, ShutdownInput
<1>3. Ended'
  <2>1. CASE Exit \/ Finish
    BY <2>1 DEF Exit, Finish, Ended
  <2>2. CASE ClockExit
    <3>1. screen = "text"
      BY <2>2, MainKnows DEF SessionInv, ClockExit, At
    <3> QED
      BY <1>1, <2>2, <3>1 DEF ClockExit, ShutdownInput, Ended
  <2> QED
    BY <2>1, <2>2
<1>4. CASE end' # "none"
  BY <1>1, <1>2, <1>3, <1>4, EndsKeeps
<1>5. CASE end' = "none"
  <2>1. UNCHANGED session
    BY <1>1, <1>5 DEF Exit, ClockExit, Finish, Cleaning, session
  <2> QED
    BY <2>1, SameSession
<1> QED
  BY <1>4, <1>5

LEMMA KillKeeps == ASSUME SessionInv, NEW s, Kill(s) PROVE SessionInv'
<1>1. UNCHANGED <<pc, held, screen, stack, frames, caught, again>> /\ end' = "killed"
  BY DEF Kill
<1>2. Ended'
  BY <1>1 DEF Ended
<1> QED
  BY <1>1, <1>2, EndsKeeps

LEMMA PopKeeps == ASSUME SessionInv, PopInMain PROVE SessionInv'
<1>1. /\ Len(frames) = 0 /\ Len(frames') = 1
      /\ frames'[1] = [for |-> "main", in |-> "none"]
      /\ frames'[1].for = "main" /\ frames'[1].in = "none" /\ frames' # <<>>
      /\ UNCHANGED <<pc, held, screen, stack, end, again, caught>>
      /\ pc = "pop" /\ frames = <<>> /\ end = "none" /\ stack # <<>>
  BY DEF PopInMain, At
<1>2. \A i \in 1 .. Len(frames') : i = 1
  BY <1>1
<1>3. \A i \in 1 .. Len(frames') : frames'[i].in = "none"
  BY <1>1, <1>2
<1>4. SessionTypes'
  <2>1. <<[for |-> "main", in |-> "none"]>> \in
          Seq([for : {"main", "panic"} \cup Signals, in : Cleanups \cup {"none"}])
    OBVIOUS
  <2> QED
    BY <1>1, <2>1 DEF SessionInv, SessionTypes, PopInMain
<1>5. MainPops'
  <2>1. held = Taken(Len(stack)) /\ screen = Picture(Len(stack))
    BY <1>1, MainKnows DEF SessionInv
  <2>2. Len(stack) > 0
    <3>1. Len(stack) \in 0..3 /\ Len(stack) # 0
      BY <1>1, StackShape DEF SessionInv, SessionTypes
    <3>2. \A n \in 0..3 : n # 0 => n > 0
      OBVIOUS
    <3> QED
      BY <3>1, <3>2, Zenon
  <2> QED
    BY <1>1, <2>1, <2>2 DEF MainPops
<1>6. InMain' /\ MainFirst' /\ Nested'
  BY <1>1, <1>2, <1>3 DEF InMain, MainFirst, Nested
<1>7. ~Under(2) /\ ~Under(3) /\ ~Under(2)' /\ ~Under(3)'
  BY <1>1, <1>3 DEF Under
<1>8. NotPushed'
  BY <1>1, <1>3 DEF SessionInv, NotPushed, Depth
<1>9. TtyOwned' /\ ScreenOwned' /\ Mapped' /\ Ended' /\ NeverTwice'
  BY <1>1, <1>7 DEF SessionInv, TtyOwned, ScreenOwned, Mapped, Ended, NeverTwice
<1> QED
  BY <1>4, <1>5, <1>6, <1>8, <1>9 DEF SessionInv

Frame == [for : {"main", "panic"} \cup Signals, in : Cleanups \cup {"none"}]

LEMMA CatchKeeps == ASSUME SessionInv, NEW s \in Signals, CatchSignal(s) PROVE SessionInv'
<1>1. /\ UNCHANGED <<pc, held, screen, stack, end, again>> /\ end = "none"
      /\ frames' = Append(frames, [for |-> s, in |-> "none"]) /\ frames \in Seq(Frame)
      /\ caught' \subseteq caught
  BY DEF SessionInv, SessionTypes, CatchSignal, Frame
<1> DEFINE f == [for |-> s, in |-> "none"]
<1>2. f \in Frame /\ f.for = s /\ f.in = "none"
  BY DEF Frame
<1>3. s # "main"
  BY SessionAssumption
<1> HIDE DEF f
<1>4. /\ Len(frames) \in Nat /\ Len(frames') = Len(frames) + 1 /\ frames' \in Seq(Frame)
      /\ frames'[Len(frames) + 1] = f
      /\ \A i \in 1 .. Len(frames) : frames'[i] = frames[i]
  <2>1. ASSUME NEW S, NEW q \in Seq(S), NEW x \in S
        PROVE  /\ Len(q) \in Nat /\ Len(Append(q, x)) = Len(q) + 1 /\ Append(q, x) \in Seq(S)
               /\ Append(q, x)[Len(q) + 1] = x
               /\ \A i \in 1 .. Len(q) : Append(q, x)[i] = q[i]
    OBVIOUS
  <2>2. frames' = Append(frames, f)
    BY <1>1 DEF f
  <2> QED
    BY <1>1, <1>2, <2>1, <2>2
<1>5. \A i \in 1 .. Len(frames') : i = Len(frames) + 1 \/ i \in 1 .. Len(frames)
  BY <1>4
<1>6. 1 \in 1 .. Len(frames') /\ 1 .. Len(frames) \subseteq 1 .. Len(frames')
  BY <1>4
<1>7. SessionTypes'
  BY <1>1, <1>4 DEF SessionInv, SessionTypes, Frame
<1>8. frames' # <<>> /\ MainFirst'
  <2>1. frames' # <<>>
    BY <1>4, EmptySeq
  <2>2. MainFirst'
    BY <1>2, <1>3, <1>4, <1>5 DEF SessionInv, MainFirst
  <2> QED
    BY <2>1, <2>2
<1>9. MainPops'
  <2>1. Len(frames') = 1 => frames'[1] = f
    BY <1>4
  <2> QED
    BY <2>1, <1>2, <1>3 DEF MainPops
<1>10. Nested'
  <2>1. ASSUME NEW i \in 1 .. Len(frames'), frames'[i].in # "none"
        PROVE  i \in 1 .. Len(frames) /\ frames'[i] = frames[i] /\ frames[i].in # "none"
    BY <1>2, <1>4, <1>5, <2>1
  <2>2. ASSUME NEW i \in 1 .. Len(frames'), NEW j \in (i + 1) .. Len(frames'), frames'[j].in # "none"
        PROVE  j \in (i + 1) .. Len(frames) /\ frames'[j] = frames[j] /\ frames[j].in # "none"
    <3>1. j \in 1 .. Len(frames') /\ i \in Nat /\ j \in Nat /\ i + 1 <= j
      BY <1>4
    <3>2. j \in 1 .. Len(frames) /\ frames'[j] = frames[j] /\ frames[j].in # "none"
      BY <2>1, <2>2, <3>1
    <3> QED
      BY <3>1, <3>2, <1>4
  <2> QED
    BY <1>1, <2>1, <2>2 DEF SessionInv, Nested
<1>11. NotPushed'
  BY <1>1, <1>2, <1>4, <1>5 DEF SessionInv, NotPushed, Depth
<1>12. (Under(2) <=> Under(2)') /\ (Under(3) <=> Under(3)')
  BY <1>2, <1>4, <1>5, <1>6 DEF Under
<1>13. TtyOwned' /\ ScreenOwned' /\ Mapped' /\ Ended' /\ NeverTwice' /\ InMain'
  BY <1>1, <1>8, <1>12 DEF SessionInv, TtyOwned, ScreenOwned, Mapped, Ended, NeverTwice, InMain
<1> QED
  BY <1>7, <1>8, <1>9, <1>10, <1>11, <1>13 DEF SessionInv

(* The innermost run is in another cleanup; and what that means.            *)
InNow(q, t, c) == t = [q EXCEPT ![Len(q)].in = c]

FramesNow(q, t, c) ==
  /\ t \in Seq(Frame) /\ Len(t) = Len(q)
  /\ t[Len(q)].in = c /\ t[Len(q)].for = q[Len(q)].for
  /\ \A i \in 1 .. Len(q) : i # Len(q) => t[i] = q[i]
  /\ \A i \in 1 .. Len(q) : q[i].in \in Cleanups \cup {"none"}

LEMMA InFrame ==
  ASSUME NEW q \in Seq(Frame), Len(q) > 0, NEW c \in Cleanups \cup {"none"}, NEW t, InNow(q, t, c)
  PROVE  FramesNow(q, t, c)
<1> DEFINE n == Len(q)
           f == [q[n] EXCEPT !.in = c]
<1>1. n \in 1 .. Len(q) /\ q[n] \in Frame
  BY LenProperties
<1>2. f \in Frame /\ f.in = c /\ f.for = q[n].for
  BY <1>1 DEF Frame
<1>3. t \in Seq(Frame) /\ Len(t) = Len(q) /\ t[n] = f /\ \A i \in 1 .. Len(q) : i # n => t[i] = q[i]
  <2>1. ASSUME NEW S, NEW s \in Seq(S), NEW x \in S, NEW k \in 1 .. Len(s)
        PROVE  /\ [s EXCEPT ![k] = x] \in Seq(S) /\ Len([s EXCEPT ![k] = x]) = Len(s)
               /\ [s EXCEPT ![k] = x][k] = x
               /\ \A i \in 1 .. Len(s) : i # k => [s EXCEPT ![k] = x][i] = s[i]
    OBVIOUS
  <2>2. t = [q EXCEPT ![n] = f]
    BY DEF InNow
  <2> HIDE DEF n, f
  <2> QED
    BY <1>1, <1>2, <2>1, <2>2
<1>4. ASSUME NEW i \in 1 .. Len(q) PROVE q[i].in \in Cleanups \cup {"none"}
  <2>1. q[i] \in Frame
    OBVIOUS
  <2> QED
    BY <2>1 DEF Frame
<1> QED
  BY <1>2, <1>3, <1>4 DEF FramesNow

(* A run's cleanup changes, and nothing else of the runs.                   *)
LEMMA CleaningFacts ==
  ASSUME SessionInv, frames # <<>>, NEW c \in Cleanups \cup {"none"}, InNow(frames, frames', c)
  PROVE  /\ Len(frames) \in Nat \ {0} /\ Len(frames') = Len(frames) /\ frames' \in Seq(Frame)
         /\ frames' # <<>>
         /\ frames'[Len(frames)].in = c
         /\ \A i \in 1 .. Len(frames) : frames'[i].for = frames[i].for
         /\ \A i \in 1 .. Len(frames) : i # Len(frames) => frames'[i].in = frames[i].in
         /\ \A i \in 1 .. Len(frames) : frames[i].in \in Cleanups \cup {"none"}
<1>1. frames \in Seq(Frame)
  BY DEF SessionInv, SessionTypes, Frame
<1>2. Len(frames) \in Nat /\ Len(frames) > 0
  BY <1>1, EmptySeq
<1>3. FramesNow(frames, frames', c)
  BY <1>1, <1>2, InFrame
<1>4. /\ Len(frames') = Len(frames) /\ frames' \in Seq(Frame)
      /\ frames'[Len(frames)].in = c
      /\ \A i \in 1 .. Len(frames) : i # Len(frames) => frames'[i].in = frames[i].in
      /\ \A i \in 1 .. Len(frames) : frames[i].in \in Cleanups \cup {"none"}
  BY <1>3 DEF FramesNow
<1>5. \A i \in 1 .. Len(frames) : frames'[i].for = frames[i].for
  BY <1>3 DEF FramesNow
<1>6. frames' # <<>>
  BY <1>2, <1>4, EmptySeq
<1> QED
  BY <1>2, <1>4, <1>5, <1>6

LEMMA UnlinkKeeps == ASSUME SessionInv, Unlink PROVE SessionInv'
<1> DEFINE L == Len(frames)
           n == Len(stack)
           c == Head(stack)
<1>1. /\ frames # <<>> /\ end = "none" /\ frames[L].in = "none" /\ stack # <<>>
      /\ InNow(frames, frames', c) /\ stack' = Tail(stack)
      /\ UNCHANGED <<pc, held, screen, caught, end, again>>
  BY DEF Unlink, Cleaning, Top, InNow
<1>2. SessionTypes /\ MainPops /\ MainFirst /\ Nested /\ NotPushed /\ TtyOwned /\ ScreenOwned /\ Mapped
      /\ NeverTwice
  BY DEF SessionInv
<1>3. /\ n \in 0..3 /\ n # 0
      /\ c \in {"thread", "video", "tty"} /\ Rank[c] = n
      /\ stack' \in Stacks /\ Len(stack') = n - 1
  BY <1>1, <1>2, StackShape DEF SessionTypes
<1>4. c \in Cleanups /\ c # "none" /\ c # "text_mode"
  BY <1>3, Ranks
<1>5. /\ L \in Nat \ {0} /\ Len(frames') = L /\ frames' \in Seq(Frame)
      /\ frames' # <<>>
      /\ frames'[L].in = c
      /\ \A i \in 1 .. L : frames'[i].for = frames[i].for
      /\ \A i \in 1 .. L : i # L => frames'[i].in = frames[i].in
      /\ \A i \in 1 .. L : frames[i].in \in Cleanups \cup {"none"}
  BY <1>1, <1>4, CleaningFacts
<1> HIDE DEF c
<1>6. SessionTypes'
  BY <1>1, <1>2, <1>3, <1>5 DEF SessionTypes, Frame
<1>7. InMain' /\ MainFirst'
  BY <1>2, <1>5 DEF InMain, MainFirst
<1>8. n \in Int /\ n - 1 < n /\ n > n - 1 /\ (n - 1) + 1 = n
  BY <1>3
<1>9. MainPops'
  <2>1. ASSUME frames'[1].for = "main", L = 1
        PROVE  pc = "pop" /\ held = Taken(n) /\ screen = Picture(n)
    BY <1>1, <1>2, <1>5, <2>1 DEF MainPops
  <2>2. L = 1 => frames'[1].in = c
    BY <1>5
  <2> QED
    BY <1>1, <1>3, <1>4, <1>5, <1>8, <2>1, <2>2 DEF MainPops
<1>10. ASSUME NEW i \in 1 .. L, i # L, frames[i].in # "none"
       PROVE  frames[i].in \in Cleanups /\ Rank[frames[i].in] > n /\ Rank[frames[i].in] \in 1..3
  <2>1. frames[i].in \in Cleanups
    BY <1>5, <1>10
  <2> QED
    BY <1>2, <1>10, <2>1, Ranks DEF Nested
<1>11. Nested'
  <2>1. ASSUME NEW i \in 1 .. L, frames'[i].in # "none"
        PROVE  /\ Rank[frames'[i].in] > n - 1
               /\ \A j \in (i + 1) .. L : frames'[j].in # "none" => Rank[frames'[i].in] > Rank[frames'[j].in]
    <3>1. CASE i = L
      <4>1. frames'[i].in = c /\ ~\E j \in (i + 1) .. L : TRUE
        BY <1>5, <3>1
      <4> QED
        BY <4>1, <1>3, <1>8
    <3>2. CASE i # L
      <4>1. frames'[i].in = frames[i].in /\ frames[i].in # "none"
        BY <1>5, <2>1, <3>2
      <4>2. Rank[frames[i].in] > n /\ Rank[frames[i].in] \in 1..3
        BY <1>10, <3>2, <4>1
      <4>3. ASSUME NEW j \in (i + 1) .. L, frames'[j].in # "none" PROVE Rank[frames[i].in] > Rank[frames'[j].in]
        <5>1. CASE j = L
          BY <5>1, <1>3, <1>5, <4>2
        <5>2. CASE j # L
          <6>1. j \in 1 .. L
            BY <1>5
          <6> QED
            BY <1>2, <1>5, <4>1, <4>3, <5>2, <6>1 DEF Nested
        <5> QED
          BY <5>1, <5>2
      <4>4. Rank[frames[i].in] > n - 1
        <5>1. \A r \in 1..3 : r > n => r > n - 1
          BY <1>3
        <5> QED
          BY <5>1, <4>2
      <4> QED
        BY <4>1, <4>3, <4>4
    <3> QED
      BY <3>1, <3>2
  <2> QED
    BY <2>1, <1>3, <1>5 DEF Nested
<1>12. NotPushed'
  <2>1. Depth' = Depth /\ Depth \in 1..3 /\ n <= Depth
    BY <1>1, <1>2 DEF Depth, NotPushed
  <2>2. n - 1 <= Depth
    BY <2>1, <1>3
  <2>3. \A i \in 1 .. L : frames'[i].in # "none" => Rank[frames'[i].in] <= Depth
    <3>1. ASSUME NEW i \in 1 .. L, i # L, frames[i].in # "none" PROVE Rank[frames[i].in] <= Depth
      BY <1>2, <3>1 DEF NotPushed
    <3>2. Rank[frames'[L].in] <= Depth
      BY <1>3, <1>5, <2>1
    <3> QED
      BY <1>5, <3>1, <3>2
  <2>4. pc' \in {"blank", "program"} => "video" \in held' /\ "tty" \notin held'
    BY <1>1, <1>2 DEF NotPushed
  <2> QED
    BY <1>3, <1>5, <2>1, <2>2, <2>3, <2>4 DEF NotPushed
<1>13. L \in 1 .. L
  BY <1>5
<1>14. /\ n = 3 => Under(3)'
       /\ n = 2 => Under(2)'
       /\ Under(3) => Under(3)'
       /\ Under(2) => Under(2)'
       /\ Under(2)' => Under(2) \/ n = 2
  <2>1. \A r \in {2, 3} : Under(r) => Under(r)'
    BY <1>1, <1>5 DEF Under
  <2>2. n = 3 => Under(3)'
    BY <1>3, <1>4, <1>5, <1>13 DEF Under
  <2>3. n = 2 => Under(2)'
    BY <1>3, <1>4, <1>5, <1>13 DEF Under
  <2>4. Under(2)' => Under(2) \/ n = 2
    BY <1>3, <1>5 DEF Under
  <2> QED
    BY <2>1, <2>2, <2>3, <2>4
<1>15. /\ n >= 2 => n = 3 \/ n = 2
       /\ n = 3 => n - 1 = 2 /\ n >= 2
       /\ n - 1 >= 2 => n >= 2
       /\ n = 2 => n >= 2
       /\ 2 >= 2
  BY <1>3
<1>16. TtyOwned'
  BY <1>1, <1>2, <1>14 DEF TtyOwned
<1>17. ScreenOwned'
  <2>1. n >= 2 => Len(stack') >= 2 \/ Under(2)'
    BY <1>3, <1>14, <1>15
  <2> QED
    BY <1>1, <1>2, <1>14, <2>1 DEF ScreenOwned
<1>18. Mapped'
  <2>1. Len(stack') >= 2 \/ Under(2)' => n >= 2 \/ Under(2)
    BY <1>3, <1>14, <1>15
  <2> QED
    BY <1>1, <1>2, <2>1 DEF Mapped
<1>19. Ended' /\ NeverTwice'
  BY <1>1, <1>2 DEF Ended, NeverTwice
<1> QED
  BY <1>6, <1>7, <1>9, <1>11, <1>12, <1>16, <1>17, <1>18, <1>19 DEF SessionInv

(* A cleanup that ends for main leaves main as it was, a resource less.     *)
LEMMA StepInMain ==
  ASSUME SessionInv, Execute, Top.for = "main", frames' = Front(frames)
  PROVE  SessionInv'
<1>1. /\ frames # <<>> /\ end = "none"
      /\ UNCHANGED <<pc, stack, caught, end>>
  BY DEF Execute, Step, Cleaning
<1>2. SessionTypes /\ MainPops /\ MainFirst /\ NeverTwice
  BY DEF SessionInv
<1>3. Len(frames) = 1 /\ frames[1].for = "main" /\ Top = frames[1]
  <2>1. Len(frames) \in Nat /\ Len(frames) # 0
    BY <1>1, <1>2, EmptySeq DEF SessionTypes
  <2>2. Len(frames) \in 1 .. Len(frames)
    BY <2>1
  <2>3. Len(frames) = 1
    BY <1>2, <2>2 DEF MainFirst, Top
  <2> QED
    BY <2>3 DEF Top
<1>4. frames' = <<>>
  BY <1>3 DEF Front
<1>5. frames[1].in \in Cleanups
  <2>1. frames[1].in \in {"thread", "tty", "video", "text_mode"}
    BY <1>3 DEF Execute, Step
  <2> QED
    BY <2>1, Ranks
<1>6. frames[1].in \in {"thread", "tty", "text_mode"}
  <2>1. frames[1].in # "video"
    <3>1. ASSUME frames[1].in = "video" PROVE FALSE
      <4>1. Step("video", "text_mode")
        BY <1>3, <3>1 DEF Execute, Step
      <4>2. frames' = [frames EXCEPT ![Len(frames)].in = "text_mode"]
        BY <4>1 DEF Step
      <4>3. frames' # <<>>
        BY <1>1, <4>2, CleaningFacts, Ranks DEF InNow
      <4> QED
        BY <1>4, <4>3
    <3> QED
      BY <3>1
  <2> QED
    BY <1>3, <2>1 DEF Execute, Step
<1>7. /\ pc = "pop" /\ Rank[frames[1].in] = Len(stack) + 1 /\ held = Taken(Len(stack) + 1)
      /\ screen = IF frames[1].in = "text_mode" THEN "blank" ELSE Picture(Len(stack) + 1)
  BY <1>1, <1>2, <1>3, <1>5, Ranks DEF MainPops
<1>8. PICK n \in 0..3 : n = Len(stack)
  BY <1>2, StackShape DEF SessionTypes
<1>9. held' = Taken(n) /\ screen' = Picture(n) /\ again' = again
  <2>1. CASE frames[1].in = "thread"
    <3>1. n = 0
      BY <1>7, <1>8, <2>1, Ranks
    <3>2. held = {"thread"} /\ screen = "text"
      BY <1>7, <1>8, <2>1, <3>1, TakenAre DEF Picture
    <3>3. held' = held \ {"thread"} /\ screen' = screen /\ again' = again
      BY <1>3, <2>1 DEF Execute, Step, CancelStatusThread
    <3>4. held' = {} /\ screen' = "text"
      BY <3>2, <3>3
    <3> QED
      BY <3>1, <3>3, <3>4, TakenAre DEF Picture
  <2>2. CASE frames[1].in = "tty"
    <3>1. n = 2
      BY <1>7, <1>8, <2>2, Ranks
    <3>2. held = {"thread", "video", "tty"} /\ screen = "mode_X"
      BY <1>7, <1>8, <2>2, <3>1, TakenAre DEF Picture
    <3>3. held' = held \ {"tty"} /\ screen' = screen /\ again' = again
      BY <1>3, <2>2 DEF Execute, Step, ShutdownInput
    <3>4. held' = {"thread", "video"} /\ screen' = "mode_X"
      BY <3>2, <3>3
    <3> QED
      BY <3>1, <3>3, <3>4, TakenAre DEF Picture
  <2>3. CASE frames[1].in = "text_mode"
    <3>1. n = 1
      BY <1>7, <1>8, <2>3, Ranks
    <3>2. held = {"thread", "video"}
      BY <1>7, <1>8, <2>3, <3>1, TakenAre
    <3>3. held' = held \ {"video"} /\ screen' = "text" /\ again' = again
      BY <1>3, <2>3 DEF Execute, Step, Unmap, SetTextMode3
    <3>4. held' = {"thread"}
      BY <3>2, <3>3
    <3> QED
      BY <3>1, <3>3, <3>4, TakenAre DEF Picture
  <2> QED
    BY <1>6, <2>1, <2>2, <2>3
<1>10. held' \subseteq {"thread", "video", "tty"}
  BY <1>9 DEF Taken
<1>11. SessionTypes'
  <2>1. frames' \in Seq(Frame)
    BY <1>4
  <2> QED
    BY <1>1, <1>2, <1>10, <2>1 DEF SessionTypes, Frame
<1>12. InMain'
  BY <1>1, <1>4, <1>7, <1>8, <1>9 DEF InMain
<1>13. NeverTwice'
  BY <1>1, <1>2, <1>9 DEF NeverTwice
<1> QED
  BY <1>1, <1>4, <1>11, <1>12, <1>13, MainRests

(* The other steps of the cleanups: what they give back, ...                *)
LEMMA StepGives ==
  ASSUME SessionInv, Execute, ~(Top.for = "main" /\ frames' = Front(frames)),
         NEW c, c = frames[Len(frames)].in,
         NEW a, a = IF c = "video" THEN "text_mode" ELSE "none"
  PROVE  /\ c \in Cleanups /\ a \in Cleanups \cup {"none"} /\ (a # "none" => Rank[a] = Rank[c])
         /\ frames # <<>> /\ end = "none" /\ UNCHANGED <<pc, stack, caught, end>>
         /\ InNow(frames, frames', a)
         /\ a # "none" \/ frames[Len(frames)].for # "main"
         /\ c = "thread" => held' = held \ {"thread"} /\ UNCHANGED <<screen, again>>
         /\ c = "tty" => held' = held \ {"tty"} /\ UNCHANGED <<screen, again>>
         /\ c = "video" => /\ screen' = "blank" /\ held' = held
                           /\ again' = (again \/ "video" \notin held)
         /\ c = "text_mode" => screen' = "text" /\ held' = held \ {"video"} /\ UNCHANGED again
<1>1. c \in {"thread", "tty", "video", "text_mode"} /\ Top.in = c
  BY DEF Execute, Step, Top
<1>2. /\ frames # <<>> /\ end = "none" /\ UNCHANGED <<pc, stack, caught, end>>
  BY DEF Execute, Step, Cleaning
<1>3. c \in Cleanups /\ a \in Cleanups \cup {"none"} /\ (a # "none" => Rank[a] = Rank[c])
  BY <1>1, Ranks
<1>4. Step(c, a)
  BY <1>1 DEF Execute, Step
<1>5. /\ c = "thread" => held' = held \ {"thread"} /\ UNCHANGED <<screen, again>>
      /\ c = "tty" => held' = held \ {"tty"} /\ UNCHANGED <<screen, again>>
  BY <1>1 DEF Execute, Step, CancelStatusThread, ShutdownInput
<1>6. /\ c = "video" => /\ screen' = "blank" /\ held' = held
                        /\ again' = (again \/ "video" \notin held)
      /\ c = "text_mode" => screen' = "text" /\ held' = held \ {"video"} /\ UNCHANGED again
  BY <1>1 DEF Execute, Step, VGABlank, SetTextMode3, Unmap
<1>7. InNow(frames, frames', a) /\ (a # "none" \/ frames[Len(frames)].for # "main")
  BY <1>4 DEF Step, InNow, Top
<1> QED
  BY <1>2, <1>3, <1>5, <1>6, <1>7

(* ... and what that leaves of the invariant.                               *)
LEMMA StepOfOthers ==
  ASSUME SessionInv, Execute, ~(Top.for = "main" /\ frames' = Front(frames))
  PROVE  SessionInv'
<1> DEFINE L == Len(frames)
           n == Len(stack)
<1>0. PICK c, a : c = frames[L].in /\ a = IF c = "video" THEN "text_mode" ELSE "none"
  OBVIOUS
<1>1. /\ c \in Cleanups /\ a \in Cleanups \cup {"none"} /\ (a # "none" => Rank[a] = Rank[c])
      /\ frames # <<>> /\ end = "none" /\ UNCHANGED <<pc, stack, caught, end>>
      /\ InNow(frames, frames', a)
      /\ a # "none" \/ frames[L].for # "main"
      /\ c = "thread" => held' = held \ {"thread"} /\ UNCHANGED <<screen, again>>
      /\ c = "tty" => held' = held \ {"tty"} /\ UNCHANGED <<screen, again>>
      /\ c = "video" => /\ screen' = "blank" /\ held' = held
                        /\ again' = (again \/ "video" \notin held)
      /\ c = "text_mode" => screen' = "text" /\ held' = held \ {"video"} /\ UNCHANGED again
  BY <1>0, StepGives
<1>2. SessionTypes /\ MainPops /\ MainFirst /\ Nested /\ NotPushed /\ TtyOwned /\ ScreenOwned /\ Mapped
      /\ NeverTwice
  BY DEF SessionInv
<1>3. /\ L \in Nat \ {0} /\ Len(frames') = L /\ frames' \in Seq(Frame)
      /\ frames' # <<>>
      /\ frames'[L].in = a
      /\ \A i \in 1 .. L : frames'[i].for = frames[i].for
      /\ \A i \in 1 .. L : i # L => frames'[i].in = frames[i].in
      /\ \A i \in 1 .. L : frames[i].in \in Cleanups \cup {"none"}
  BY <1>1, CleaningFacts
<1>4. /\ L \in 1 .. L /\ n \in 0..3 /\ c # "none" /\ frames[L].in = c
      /\ Rank[c] \in 1..3
  <2>1. L \in 1 .. L
    BY <1>3
  <2>2. n \in 0..3
    BY <1>2, StackShape DEF SessionTypes
  <2>3. c # "none" /\ frames[L].in = c /\ Rank[c] \in 1..3
    BY <1>0, <1>1, Ranks
  <2> QED
    BY <2>1, <2>2, <2>3
<1>5. \A i \in 1 .. L : frames'[i].in # "none" =>
        /\ frames[i].in # "none"
        /\ Rank[frames'[i].in] = Rank[frames[i].in]
  BY <1>1, <1>3, <1>4
<1>6. SessionTypes'
  <2>1. held' \subseteq held
    BY <1>1, Ranks
  <2> QED
    BY <1>1, <1>2, <1>3, <2>1 DEF SessionTypes, Frame
<1>7. InMain' /\ MainFirst'
  BY <1>2, <1>3 DEF InMain, MainFirst
<1>8. MainPops'
  <2>1. ASSUME frames'[1].for = "main", L = 1
        PROVE  /\ pc = "pop" /\ Rank[c] = n + 1 /\ held = Taken(n + 1)
               /\ a = "text_mode" /\ c = "video"
    <3>1. frames[1].for = "main" /\ frames[1].in = c
      BY <1>3, <1>4, <2>1
    <3>2. a # "none"
      BY <1>1, <2>1, <3>1
    <3> QED
      BY <1>0, <1>1, <1>2, <1>4, <2>1, <3>1, <3>2 DEF MainPops
  <2>2. L = 1 => frames'[1].in = a
    BY <1>3
  <2> QED
    BY <1>1, <1>3, <2>1, <2>2 DEF MainPops
<1>9. Nested'
  <2>1. ASSUME NEW i \in 1 .. L, frames'[i].in # "none"
        PROVE  /\ Rank[frames'[i].in] > n
               /\ \A j \in (i + 1) .. L : frames'[j].in # "none" => Rank[frames'[i].in] > Rank[frames'[j].in]
    <3>1. Rank[frames'[i].in] > n
      BY <1>2, <1>5, <2>1 DEF Nested
    <3>2. ASSUME NEW j \in (i + 1) .. L, frames'[j].in # "none" PROVE Rank[frames'[i].in] > Rank[frames'[j].in]
      <4>1. j \in 1 .. L
        BY <1>3
      <4>2. Rank[frames[i].in] > Rank[frames[j].in]
        BY <1>2, <1>5, <2>1, <3>2, <4>1 DEF Nested
      <4> QED
        BY <1>5, <2>1, <3>2, <4>1, <4>2
    <3> QED
      BY <3>1, <3>2
  <2> QED
    BY <2>1, <1>1, <1>3 DEF Nested
<1>10. c = "tty" \/ c = "text_mode" => pc \notin {"blank", "program"}
  <2>1. Rank[c] <= Depth
    BY <1>2, <1>4 DEF NotPushed
  <2> QED
    BY <2>1, Ranks DEF Depth
<1>11. c = "tty" => Depth = 3
  <2>1. Rank[c] <= Depth
    BY <1>2, <1>4 DEF NotPushed
  <2> QED
    BY <2>1, Ranks DEF Depth
<1>12. NotPushed'
  <2>1. Depth' = Depth
    <3>1. CASE c = "tty"
      BY <1>1, <1>11, <3>1 DEF Depth
    <3>2. CASE c # "tty"
      <4>1. "tty" \in held' <=> "tty" \in held
        BY <1>1, <3>2, Ranks
      <4> QED
        BY <1>1, <4>1 DEF Depth
    <3> QED
      BY <3>1, <3>2
  <2>2. \A i \in 1 .. L : frames'[i].in # "none" => Rank[frames'[i].in] <= Depth
    BY <1>2, <1>5 DEF NotPushed
  <2>3. pc \in {"blank", "program"} => "video" \in held' /\ "tty" \notin held'
    BY <1>1, <1>2, <1>10, Ranks DEF NotPushed
  <2> QED
    BY <1>1, <1>2, <1>3, <2>1, <2>2, <2>3 DEF NotPushed
<1>13. /\ Under(2)' => Under(2)
       /\ c = "video" => Under(2)' /\ Under(2)
       /\ c # "tty" => (Under(3) => Under(3)')
       /\ c \notin {"video", "text_mode"} => (Under(2) => Under(2)')
  <2>1. Under(2)' => Under(2)
    BY <1>3, <1>5 DEF Under
  <2>2. c = "video" => Under(2)' /\ Under(2)
    BY <1>0, <1>1, <1>3, <1>4, Ranks DEF Under
  <2>3. c # "tty" => (Under(3) => Under(3)')
    BY <1>1, <1>3, <1>4, Ranks DEF Under
  <2>4. c \notin {"video", "text_mode"} => (Under(2) => Under(2)')
    BY <1>1, <1>3, <1>4, Ranks DEF Under
  <2> QED
    BY <2>1, <2>2, <2>3, <2>4
<1>14. TtyOwned'
  BY <1>1, <1>2, <1>13, Ranks DEF TtyOwned
<1>15. ScreenOwned'
  <2>1. CASE c = "video"
    BY <1>13, <2>1 DEF ScreenOwned
  <2>2. CASE c = "text_mode"
    BY <1>1, <2>2 DEF ScreenOwned
  <2>3. CASE c = "thread"
    BY <1>1, <1>2, <1>13, <2>3 DEF ScreenOwned
  <2>4. CASE c = "tty"
    <3>1. pc \notin {"blank", "program", "push"}
      BY <1>11, <2>4 DEF Depth
    <3> QED
      BY <1>1, <1>2, <1>13, <2>4, <3>1 DEF ScreenOwned
  <2> QED
    BY <1>1, <2>1, <2>2, <2>3, <2>4, Ranks
<1>16. Mapped'
  <2>1. CASE c = "text_mode"
    <3>1. ~(n >= 2)
      <4>1. Rank[c] > n
        BY <1>2, <1>4 DEF Nested
      <4> QED
        BY <4>1, <1>4, <2>1, Ranks
    <3>2. ~Under(2)'
      <4>1. a = "none"
        BY <1>0, <2>1
      <4>2. ASSUME NEW i \in 1 .. L, frames'[i].in # "none", Rank[frames'[i].in] = 2 PROVE FALSE
        <5>1. i # L /\ frames[i].in # "none" /\ Rank[frames[i].in] = 2
          BY <1>3, <1>5, <4>1, <4>2
        <5>2. L \in (i + 1) .. L
          BY <1>3, <5>1
        <5>3. Rank[frames[i].in] > Rank[c]
          BY <1>2, <1>4, <5>1, <5>2 DEF Nested
        <5> QED
          BY <5>1, <5>3, <2>1, Ranks
      <4> QED
        BY <1>3, <4>2 DEF Under
    <3> QED
      BY <1>1, <3>1, <3>2 DEF Mapped
  <2>2. CASE c # "text_mode"
    <3>1. "video" \in held => "video" \in held'
      BY <1>1, <2>2, Ranks
    <3> QED
      BY <1>1, <1>2, <1>13, <3>1 DEF Mapped
  <2> QED
    BY <2>1, <2>2
<1>17. NeverTwice'
  <2>1. CASE c = "video"
    BY <1>1, <1>2, <1>13, <2>1 DEF NeverTwice, Mapped
  <2>2. CASE c # "video"
    BY <1>1, <1>2, <2>2, Ranks DEF NeverTwice
  <2> QED
    BY <2>1, <2>2
<1>18. Ended'
  BY <1>1 DEF Ended
<1> QED
  BY <1>6, <1>7, <1>8, <1>9, <1>12, <1>14, <1>15, <1>16, <1>17, <1>18 DEF SessionInv

LEMMA ExecuteKeeps == ASSUME SessionInv, Execute PROVE SessionInv'
BY StepInMain, StepOfOthers

LEMMA SessionStep == ASSUME SessionInv, [Next]_vars PROVE SessionInv'
<1>1. CASE UNCHANGED session
  BY <1>1, SameSession
<1>2. CASE Leave
  BY <1>2, ModeKeeps DEF Leave
<1>3. CASE Program(Sane)
  BY <1>3, StartKeeps, TakeKeeps, ModeKeeps, NonblockKeeps, PushKeeps, ExitKeeps, PopKeeps, UnlinkKeeps,
     ExecuteKeeps DEF Program
<1>4. CASE ClockFails
  BY <1>4, ModeKeeps
<1>5. CASE Arrives
  BY <1>5, CatchKeeps, KillKeeps DEF Arrives
<1> QED
  BY <1>1, <1>2, <1>3, <1>4, <1>5 DEF Next, Main, Loop, vars

(* The resources that main takes, the stack of cleanups and the runs of     *)
(* cleanups under way stay in step, whatever fails and whichever signals come. *)
THEOREM SessionInvariance == Spec => []SessionInv
<1>1. Init => SessionInv
  BY SessionInit DEF Init
<1>2. SessionInv /\ [Next]_vars => SessionInv'
  BY SessionStep
<1> QED
  BY <1>1, <1>2, PTL DEF Spec

(* clear_mode_X never writes to video memory that has been unmapped, except *)
(* after the clock has failed (adventure.c's gettimeofday).                 *)
THEOREM OnceUnmappedUnused == Spec => []NeverTwice
<1>1. SessionInv => NeverTwice
  BY DEF SessionInv
<1> QED
  BY <1>1, SessionInvariance, PTL

LEMMA Latest ==
  ASSUME NEW I, I \subseteq 1..3
  PROVE  /\ 3 \in I => Max(I) = 3
         /\ 2 \in I /\ 3 \notin I => Max(I) = 2
<1>1. ASSUME NEW k \in 1..3, k \in I, \A i \in I : k >= i PROVE Max(I) = k
  <2>1. Max(I) \in I /\ \A i \in I : Max(I) >= i
    BY <1>1 DEF Max
  <2>2. PICK m \in 1..3 : m = Max(I)
    BY <2>1
  <2>3. m >= k /\ k >= m
    BY <1>1, <2>1, <2>2, Zenon
  <2> QED
    BY <2>2, <2>3
<1>2. 3 \in I => \A i \in I : 3 >= i
  OBVIOUS
<1>3. 2 \in I /\ 3 \notin I => \A i \in I : 2 >= i
  OBVIOUS
<1> QED
  BY <1>1, <1>2, <1>3

LEMMA NewestIs ==
  /\ "tty" \in held => Newest = "tty"
  /\ "video" \in held /\ "tty" \notin held => Newest = "video"
<1> DEFINE I == {i \in 1 .. Len(Resources) : Resources[i] \in held}
<1>1. Newest = Resources[IF I # {} THEN Max(I) ELSE 0]
  BY DEF Newest, SelectLastInSeq
<1>2. Resources[2] = "video" /\ Resources[3] = "tty" /\ Len(Resources) = 3
  BY DEF Resources
<1>3. /\ I \subseteq 1..3
      /\ 3 \in I <=> "tty" \in held
      /\ 2 \in I <=> "video" \in held
  BY <1>2
<1> HIDE DEF I
<1>4. I # {} => Newest = Resources[Max(I)]
  BY <1>1
<1> QED
  BY <1>2, <1>3, <1>4, Latest

LEMMA FramesIn ==
  ASSUME NEW q \in Seq(Frame), NEW i \in 1 .. Len(q)
  PROVE  q[i].in \in Cleanups \cup {"none"}
<1>1. q[i] \in Frame
  OBVIOUS
<1> QED
  BY <1>1 DEF Frame

LEMMA RunsIn ==
  ASSUME SessionInv, NEW i \in 1 .. Len(frames), frames[i].in # "none"
  PROVE  frames[i].in \in Cleanups
<1>1. frames \in Seq(Frame)
  BY DEF SessionInv, SessionTypes, Frame
<1>2. frames[i].in \in Cleanups \cup {"none"}
  BY <1>1, FramesIn
<1> QED
  BY <1>2

(* However the game ends, unless by a second signal, the terminal and the   *)
(* text screen are given back, except for what a signal caught in flight.   *)
THEOREM ScreenGivenBack == Spec => []GivenBack
<1>1. ASSUME SessionInv PROVE GivenBack
  <2>1. ASSUME end \notin {"none", "killed"} PROVE "tty" \in held => "tty" \in InFlight
    <3>1. ASSUME "tty" \in held PROVE "tty" \in InFlight
      <4>1. stack = <<>>
        BY <1>1, <2>1, <3>1 DEF SessionInv, Ended
      <4>2. Under(3) \/ pc = "push"
        BY <1>1, <3>1, <4>1 DEF SessionInv, TtyOwned
      <4>3. CASE pc = "push"
        BY <3>1, <4>3, NewestIs DEF InFlight
      <4>4. CASE Under(3)
        <5>1. PICK i \in 1 .. Len(frames) : frames[i].in # "none" /\ Rank[frames[i].in] = 3
          BY <4>4 DEF Under
        <5>2. frames[i].in \in Cleanups
          BY <1>1, <5>1, RunsIn
        <5>3. frames[i].in = "tty"
          BY <5>1, <5>2, Ranks
        <5> QED
          BY <5>3 DEF InFlight
      <4> QED
        BY <4>2, <4>3, <4>4
    <3> QED
      BY <3>1
  <2>2. ASSUME end \notin {"none", "killed"}, screen # "text"
        PROVE  InFlight \cap {"video", "text_mode"} # {}
    <3>1. stack = <<>>
      BY <1>1, <2>2 DEF SessionInv, Ended
    <3>2. \/ Under(2)
          \/ pc \in {"blank", "program", "push"} /\ "video" \in held /\ "tty" \notin held
      <4>1. Len(stack) = 0 /\ ~(0 >= 2)
        BY <3>1
      <4> QED
        BY <1>1, <2>2, <4>1 DEF SessionInv, ScreenOwned
    <3>3. CASE Under(2)
      <4>1. PICK i \in 1 .. Len(frames) : frames[i].in # "none" /\ Rank[frames[i].in] = 2
        BY <3>3 DEF Under
      <4>2. frames[i].in \in Cleanups
        BY <1>1, <4>1, RunsIn
      <4>3. frames[i].in \in {"video", "text_mode"}
        BY <4>1, <4>2, Ranks
      <4> QED
        BY <4>3 DEF InFlight
    <3>4. CASE pc \in {"blank", "program", "push"} /\ "video" \in held /\ "tty" \notin held
      BY <3>4, NewestIs DEF InFlight
    <3> QED
      BY <3>2, <3>3, <3>4
  <2> QED
    BY <2>1, <2>2 DEF GivenBack
<1> QED
  BY <1>1, SessionInvariance, PTL

(* What the innermost run of cleanups has still to do: two steps for each   *)
(* cleanup that is linked and one more for clear_mode_X, and the rest of    *)
(* the cleanup it is in.                                                    *)
Left(cleanup) ==
  CASE cleanup = "none" -> 0
    [] cleanup = "video" -> 2
    [] OTHER -> 1

CleanWork == 3 * Len(stack) + Left(Top.in)

(* Every step while cleanups run brings their end nearer: it ends the       *)
(* process, or returns to main the one cleanup that main popped, or leaves  *)
(* less to do, or is a signal that comes for the only time and leaves no    *)
(* more to do.  A run for a failure or a signal never gives the process     *)
(* back to main.                                                            *)
RunsEnd ==
  [][Cleaning =>
       \/ end' # "none"
       \/ Top.for = "main" /\ frames' = <<>>
       \/ /\ Cleaning' /\ (Top.for # "main" => Top'.for # "main")
          /\ CleanWork \in Nat /\ CleanWork' \in Nat
          /\ caught' \subseteq caught
          /\ CleanWork' <= CleanWork /\ (CleanWork' < CleanWork \/ caught' # caught)]_session

(* The run that cleans, and what it cleans.                                 *)
LEMMA RunsNow ==
  ASSUME SessionInv, Cleaning
  PROVE  /\ frames \in Seq(Frame) /\ Len(frames) \in Nat \ {0}
         /\ Top \in Frame /\ Top = frames[Len(frames)]
         /\ stack \in Stacks /\ Len(stack) \in Nat
         /\ (Top.for = "main" => Front(frames) = <<>>)
<1>1. frames \in Seq(Frame) /\ stack \in Stacks /\ MainFirst
  BY DEF SessionInv, SessionTypes, Frame
<1>2. Len(frames) \in Nat \ {0} /\ Len(frames) \in 1 .. Len(frames)
  BY <1>1, EmptySeq DEF Cleaning
<1>3. Top \in Frame /\ Top = frames[Len(frames)]
  BY <1>1, <1>2 DEF Top
<1>4. Len(stack) \in Nat
  BY <1>1, StackShape
<1>5. ASSUME Top.for = "main" PROVE Front(frames) = <<>>
  <2>1. Len(frames) = 1
    BY <1>1, <1>2, <1>3, <1>5 DEF MainFirst
  <2> QED
    BY <2>1 DEF Front
<1> QED
  BY <1>1, <1>2, <1>3, <1>4, <1>5

LEMMA LeftIs ==
  \A c : Left(c) \in 0..2 /\ (c = "none" <=> Left(c) = 0) /\ (c # "video" => Left(c) <= 1)
BY DEF Left

LEMMA WorkIs ==
  ASSUME SessionInv, Cleaning, NEW c \in Cleanups \cup {"none"}, InNow(frames, frames', c),
         end' = end, Len(stack') \in Nat, caught' = caught,
         3 * Len(stack') + Left(c) < 3 * Len(stack) + Left(Top.in)
  PROVE  /\ Cleaning' /\ (Top.for # "main" => Top'.for # "main")
         /\ CleanWork \in Nat /\ CleanWork' \in Nat
         /\ caught' \subseteq caught
         /\ CleanWork' <= CleanWork /\ (CleanWork' < CleanWork \/ caught' # caught)
<1>1. /\ Len(frames) \in Nat \ {0} /\ Len(stack) \in Nat /\ Top = frames[Len(frames)]
  BY RunsNow
<1>2. /\ Len(frames') = Len(frames) /\ frames' # <<>>
      /\ frames'[Len(frames)].in = c
      /\ \A i \in 1 .. Len(frames) : frames'[i].for = frames[i].for
  BY CleaningFacts DEF Cleaning
<1>3. Top' = frames'[Len(frames')]
  BY DEF Top
<1>4. Top'.in = c /\ Top'.for = Top.for
  BY <1>1, <1>2, <1>3
<1>5. CleanWork = 3 * Len(stack) + Left(Top.in) /\ CleanWork' = 3 * Len(stack') + Left(c)
  BY <1>4 DEF CleanWork
<1>6. Cleaning'
  BY <1>2 DEF Cleaning
<1> QED
  BY <1>1, <1>4, <1>5, <1>6, LeftIs

(* One step for each action that cleanups leave enabled.                    *)
LEMMA RunsStep ==
  ASSUME SessionInv, [Next]_vars, Cleaning
  PROVE  \/ UNCHANGED session
         \/ end' # "none"
         \/ Top.for = "main" /\ frames' = <<>>
         \/ /\ Cleaning' /\ (Top.for # "main" => Top'.for # "main")
            /\ CleanWork \in Nat /\ CleanWork' \in Nat
            /\ caught' \subseteq caught
            /\ CleanWork' <= CleanWork /\ (CleanWork' < CleanWork \/ caught' # caught)
<1>1. /\ frames \in Seq(Frame) /\ Len(frames) \in Nat \ {0}
      /\ Top \in Frame /\ Top = frames[Len(frames)]
      /\ stack \in Stacks /\ Len(stack) \in Nat
      /\ (Top.for = "main" => Front(frames) = <<>>)
  BY RunsNow
<1>2. frames # <<>> /\ end = "none"
  BY DEF Cleaning
<1>3. CASE Unlink
  <2> DEFINE c == Head(stack)
  <2>1. /\ Top.in = "none" /\ stack # <<>> /\ InNow(frames, frames', c) /\ stack' = Tail(stack)
        /\ end' = end /\ caught' = caught
    BY <1>3 DEF Unlink, Top, InNow
  <2>2. c \in {"thread", "video", "tty"} /\ Len(stack') = Len(stack) - 1 /\ Len(stack') \in Nat
    <3>1. Len(stack) \in 0..3 /\ (stack = <<>> <=> Len(stack) = 0)
      BY <1>1, StackShape
    <3>2. c \in {"thread", "video", "tty"} /\ Len(stack') = Len(stack) - 1
      BY <1>1, <2>1, StackShape
    <3> QED
      BY <2>1, <3>1, <3>2
  <2>3. c \in Cleanups \cup {"none"}
    BY <2>2, Ranks
  <2>4. Left(c) \in 0..2 /\ Left(Top.in) = 0
    BY <2>1, LeftIs
  <2> HIDE DEF c
  <2>5. 3 * Len(stack') + Left(c) < 3 * Len(stack) + Left(Top.in)
    BY <1>1, <2>2, <2>4
  <2> QED
    BY <2>1, <2>2, <2>3, <2>5, WorkIs
<1>4. CASE Execute /\ Top.for = "main" /\ frames' = Front(frames)
  BY <1>1, <1>4
<1>5. CASE Execute /\ ~(Top.for = "main" /\ frames' = Front(frames))
  <2>1. PICK c, a : c = frames[Len(frames)].in /\ a = IF c = "video" THEN "text_mode" ELSE "none"
    OBVIOUS
  <2>2. /\ c \in Cleanups /\ a \in Cleanups \cup {"none"}
        /\ UNCHANGED <<stack, caught, end>> /\ InNow(frames, frames', a)
    BY <1>5, <2>1, StepGives
  <2>3. Left(a) < Left(c) /\ Left(a) \in Nat /\ Left(c) \in Nat
    <3>1. CASE c = "video"
      BY <2>1, <3>1 DEF Left
    <3>2. CASE c # "video"
      <4>1. a = "none" /\ c # "none"
        BY <2>1, <2>2, <3>2, Ranks
      <4> QED
        BY <3>2, <4>1 DEF Left
    <3> QED
      BY <3>1, <3>2
  <2>4. Top.in = c
    BY <1>1, <2>1
  <2>5. 3 * Len(stack') + Left(a) < 3 * Len(stack) + Left(Top.in)
    BY <1>1, <2>2, <2>3, <2>4
  <2> QED
    BY <1>1, <2>2, <2>5, WorkIs
<1>6. CASE Finish
  <2>1. end' = Top.for
    BY <1>6 DEF Finish
  <2>2. Top.for \in {"main", "panic"} \cup Signals
    BY <1>1 DEF Frame
  <2> QED
    BY <2>1, <2>2, SessionAssumption
<1>7. ASSUME NEW s \in Signals, CatchSignal(s)
      PROVE  /\ Cleaning' /\ Top'.for # "main"
             /\ CleanWork \in Nat /\ CleanWork' \in Nat
             /\ caught' \subseteq caught
             /\ CleanWork' <= CleanWork /\ caught' # caught
  <2> DEFINE f == [for |-> s, in |-> "none"]
  <2>1. /\ frames' = Append(frames, f) /\ s \in caught /\ caught' = caught \ {s}
        /\ stack' = stack /\ end' = "none"
    BY <1>7 DEF CatchSignal
  <2>2. f \in Frame /\ f.for = s /\ f.in = "none"
    BY Ranks DEF Frame
  <2> HIDE DEF f
  <2>3. Len(frames') = Len(frames) + 1 /\ frames'[Len(frames) + 1] = f
    BY <1>1, <2>1, <2>2, AppendProperties
  <2>4. Top' = f
    BY <2>3 DEF Top
  <2>5. frames' # <<>>
    BY <1>1, <2>3
  <2>6. CleanWork = 3 * Len(stack) + Left(Top.in) /\ CleanWork' = 3 * Len(stack) + Left("none")
    BY <2>1, <2>2, <2>4 DEF CleanWork
  <2>7. Left(Top.in) \in Nat /\ Left("none") = 0
    BY LeftIs
  <2>8. CleanWork \in Nat /\ CleanWork' \in Nat /\ CleanWork' <= CleanWork
    BY <1>1, <2>6, <2>7
  <2>9. s # "main"
    BY SessionAssumption
  <2> QED
    BY <2>1, <2>2, <2>4, <2>5, <2>8, <2>9 DEF Cleaning
<1>8. ASSUME NEW s \in Signals, Kill(s) PROVE end' # "none"
  BY <1>8 DEF Kill
<1>9. UNCHANGED session \/ Unlink \/ Execute \/ Finish \/ Arrives
  BY <1>2 DEF Next, Main, Loop, Leave, LeaveLoop, Program, CleanOnSignals, BuildWorld, CreateThread,
     OpenMemory, SetModeX, SetNonblock, SetTerminal, PushCleanup, ClearModeX, ClockExit, PopInMain,
     Exit, ClockFails, At, vars
<1> QED
  BY <1>3, <1>4, <1>5, <1>6, <1>7, <1>8, <1>9 DEF Arrives

(* Whatever fails and whichever signals come, and wherever they come, the   *)
(* cleanups end: no signal restarts what is done, and no run waits for      *)
(* another (pop_cleanup, do_cleanups and catch_signal of assert.c).         *)
THEOREM CleanupsEnd == Spec => RunsEnd
<1>1. SessionInv /\ [Next]_vars =>
        [Cleaning =>
           \/ end' # "none"
           \/ Top.for = "main" /\ frames' = <<>>
           \/ /\ Cleaning' /\ (Top.for # "main" => Top'.for # "main")
              /\ CleanWork \in Nat /\ CleanWork' \in Nat
              /\ caught' \subseteq caught
              /\ CleanWork' <= CleanWork /\ (CleanWork' < CleanWork \/ caught' # caught)]_session
  BY RunsStep
<1> QED
  BY <1>1, SessionInvariance, PTL DEF Spec, RunsEnd

----------------------------------------------------------------------------
(* The player's input: where the automaton is while a key has bytes to send. *)
KeyRest ==
  /\ key = "Up" => /\ rest \in {<<"[", "A">>, <<"A">>, <<>>}
                   /\ from = 0 /\ rest = <<"[", "A">> => state = 1
                   /\ from = 0 /\ rest = <<"A">> => state = 2
  /\ key = "Home" => /\ rest \in {<<"[", "1", "~">>, <<"1", "~">>, <<"~">>, <<>>}
                     /\ from = 0 /\ rest = <<"[", "1", "~">> => state = 1
                     /\ from = 0 /\ rest = <<"1", "~">> => state = 2
                     /\ from = 0 /\ rest = <<"~">> => state = 3
  /\ key \notin {"Up", "Home"} => rest = <<>>

InputInv ==
  /\ KeyRest /\ state \in 0..3
  /\ typing \in Seq(Letters \cup {"A", "1", "DEL"}) /\ Len(typing) <= MaxTyped

LEMMA PrefixStays ==
  ASSUME NEW S, NEW s \in Seq(S), NEW x \in S
  PROVE  IsPrefix(s, s) /\ IsPrefix(s, Append(s, x))
<1>1. SubSeq(s, 1, Len(s)) = s /\ Len(s) \in Nat
  BY SubSeqFull, LenProperties
<1>2. IsPrefix(s, s)
  BY <1>1 DEF IsPrefix
<1>3. <<x>> \in Seq(S) /\ Append(s, x) = s \o <<x>> /\ Len(Append(s, x)) = Len(s) + 1
  BY AppendIsConcat, AppendProperties
<1>4. SubSeq(s \o <<x>>, 1, Len(s)) = s
  <2>1. CASE Len(s) = 0
    <3>1. s = <<>>
      BY <2>1, EmptySeq
    <3>2. SubSeq(s \o <<x>>, 1, 0) = <<>>
      BY SubSeqEmpty
    <3> QED
      BY <2>1, <3>1, <3>2
  <2>2. CASE Len(s) # 0
    <3>1. 1 \in 1 .. Len(s) /\ Len(s) \in 1 .. Len(s)
      BY <1>1, <2>2
    <3>2. SubSeq(s \o <<x>>, 1, Len(s)) = SubSeq(s, 1, Len(s))
      BY <1>3, <3>1, SubSeqOfConcat1
    <3> QED
      BY <1>1, <3>2
  <2> QED
    BY <2>1, <2>2
<1>5. Len(s) <= Len(Append(s, x))
  BY <1>1, <1>3
<1> QED
  BY <1>1, <1>2, <1>3, <1>4, <1>5 DEF IsPrefix

LEMMA Fronts ==
  ASSUME NEW S, NEW s \in Seq(S), Len(s) > 0
  PROVE  Front(s) \in Seq(S) /\ Len(Front(s)) = Len(s) - 1
<1>1. Len(s) \in Nat /\ \A i \in 1 .. (Len(s) - 1) : s[i] \in S
  BY LenProperties
<1>2. 1 \in Int /\ Len(s) - 1 \in Int
  BY <1>1
<1>3. /\ SubSeq(s, 1, Len(s) - 1) \in Seq(S)
      /\ Len(SubSeq(s, 1, Len(s) - 1)) = IF 1 <= Len(s) - 1 THEN Len(s) - 1 - 1 + 1 ELSE 0
  BY <1>1, <1>2, SubSeqProperties
<1>4. \A n \in Nat : n > 0 => (IF 1 <= n - 1 THEN n - 1 - 1 + 1 ELSE 0) = n - 1
  OBVIOUS
<1>5. Len(SubSeq(s, 1, Len(s) - 1)) = Len(s) - 1
  BY <1>1, <1>3, <1>4
<1> QED
  BY <1>3, <1>5 DEF Front

Typed == Letters \cup {"A", "1", "DEL"}

(* What a plain key does to the typed line.                                 *)
LEMMA Typing ==
  ASSUME NEW t \in Seq(Typed), Len(t) <= MaxTyped, NEW ch, ValidTyping(ch)
  PROVE  /\ TypedAChar(t, ch) \in Seq(Typed) /\ Len(TypedAChar(t, ch)) <= MaxTyped
         /\ IsPrefix(t, TypedAChar(t, ch)) \/ (ch = "DEL" /\ Len(TypedAChar(t, ch)) + 1 = Len(t))
<1>1. ch \in Typed
  BY DEF ValidTyping, Typed
<1>2. Len(t) \in Nat /\ MaxTyped \in Nat
  BY LenProperties, InputAssumption
<1>3. CASE ch = "DEL" /\ Len(t) > 0
  <2>1. TypedAChar(t, ch) = Front(t)
    BY <1>3 DEF TypedAChar
  <2>2. Front(t) \in Seq(Typed) /\ Len(Front(t)) = Len(t) - 1
    BY <1>3, Fronts
  <2>3. Len(t) - 1 + 1 = Len(t) /\ Len(t) - 1 <= MaxTyped
    BY <1>2
  <2> QED
    BY <1>3, <2>1, <2>2, <2>3
<1>4. CASE (ch = "DEL" /\ ~(Len(t) > 0)) \/ (ch # "DEL" /\ ~(Len(t) < MaxTyped))
  <2>1. TypedAChar(t, ch) = t
    BY <1>4 DEF TypedAChar
  <2> QED
    BY <1>1, <2>1, PrefixStays
<1>5. CASE ch # "DEL" /\ Len(t) < MaxTyped
  <2>1. TypedAChar(t, ch) = Append(t, ch)
    BY <1>5 DEF TypedAChar
  <2>2. Append(t, ch) \in Seq(Typed) /\ Len(Append(t, ch)) = Len(t) + 1 /\ IsPrefix(t, Append(t, ch))
    BY <1>1, PrefixStays, AppendProperties
  <2>3. Len(t) + 1 <= MaxTyped
    BY <1>2, <1>5
  <2> QED
    BY <2>1, <2>2, <2>3
<1> QED
  BY <1>3, <1>4, <1>5

LEMMA InputInit == ASSUME InitInput PROVE InputInv
<1>1. typing \in Seq(Typed) /\ Len(typing) = 0
  BY EmptySeq DEF InitInput
<1>2. Len(typing) <= MaxTyped
  BY <1>1, InputAssumption
<1>3. KeyRest /\ state \in 0..3
  BY DEF InitInput, KeyRest
<1> QED
  BY <1>1, <1>2, <1>3 DEF InputInv, Typed

(* One byte: the automaton's step, and the typed line.                      *)
LEMMA ByteTypes ==
  ASSUME InputInv, NEW ch, Automaton(ch)
  PROVE  /\ state' \in 0..3 /\ typing' \in Seq(Typed) /\ Len(typing') <= MaxTyped
         /\ IsPrefix(typing, typing') \/ (ch = "DEL" /\ Len(typing') + 1 = Len(typing))
<1>1. typing \in Seq(Typed) /\ Len(typing) <= MaxTyped
  BY DEF InputInv, Typed
<1>2. state' \in 0..3 /\ (typing' = typing \/ Ordinary(ch))
  BY DEF Automaton, Swallow, Push
<1>3. CASE typing' = typing
  <2>1. IsPrefix(typing, typing)
    <3>1. \A x \in Typed : IsPrefix(typing, typing) /\ IsPrefix(typing, Append(typing, x))
      BY <1>1, PrefixStays
    <3> QED
      BY <3>1 DEF Typed
  <2> QED
    BY <1>1, <1>2, <1>3, <2>1
<1>4. CASE Ordinary(ch) /\ ValidTyping(ch)
  <2>1. typing' = TypedAChar(typing, ch)
    BY <1>4 DEF Ordinary
  <2> QED
    BY <1>1, <1>2, <1>4, <2>1, Typing
<1> QED
  BY <1>2, <1>3, <1>4 DEF Ordinary


(* A key's first byte, and those after it.                                  *)
LEMMA KeyStarts ==
  ASSUME NEW k
  PROVE  /\ k = "Up" => Head(KeyBytes(k)) = "ESC" /\ Tail(KeyBytes(k)) = <<"[", "A">>
         /\ k = "Home" => Head(KeyBytes(k)) = "ESC" /\ Tail(KeyBytes(k)) = <<"[", "1", "~">>
         /\ k \notin {"Up", "Home"} => Head(KeyBytes(k)) = k /\ Tail(KeyBytes(k)) = <<>>
<1>1. k = "Up" => Head(KeyBytes(k)) = "ESC" /\ Tail(KeyBytes(k)) = <<"[", "A">>
  BY DEF KeyBytes
<1>2. k = "Home" => Head(KeyBytes(k)) = "ESC" /\ Tail(KeyBytes(k)) = <<"[", "1", "~">>
  BY DEF KeyBytes
<1>3. k \notin {"Up", "Home"} => KeyBytes(k) = <<k>>
  BY DEF KeyBytes
<1>4. Head(<<k>>) = k /\ Tail(<<k>>) = <<>>
  OBVIOUS
<1> QED
  BY <1>1, <1>2, <1>3, <1>4

LEMMA Rests ==
  /\ Head(<<"[", "A">>) = "[" /\ Tail(<<"[", "A">>) = <<"A">>
  /\ Head(<<"A">>) = "A" /\ Tail(<<"A">>) = <<>>
  /\ Head(<<"[", "1", "~">>) = "[" /\ Tail(<<"[", "1", "~">>) = <<"1", "~">>
  /\ Head(<<"1", "~">>) = "1" /\ Tail(<<"1", "~">>) = <<"~">>
  /\ Head(<<"~">>) = "~" /\ Tail(<<"~">>) = <<>>
<1>1. Head(<<"[", "A">>) = "[" /\ Tail(<<"[", "A">>) = <<"A">>
  OBVIOUS
<1>2. Head(<<"A">>) = "A" /\ Tail(<<"A">>) = <<>>
  OBVIOUS
<1>3. Head(<<"[", "1", "~">>) = "[" /\ Tail(<<"[", "1", "~">>) = <<"1", "~">>
  OBVIOUS
<1>4. Head(<<"1", "~">>) = "1" /\ Tail(<<"1", "~">>) = <<"~">>
  OBVIOUS
<1>5. Head(<<"~">>) = "~" /\ Tail(<<"~">>) = <<>>
  OBVIOUS
<1> QED
  BY <1>1, <1>2, <1>3, <1>4, <1>5

LEMMA Lengths ==
  /\ <<"[", "A">> # <<>> /\ <<"A">> # <<>> /\ <<"[", "1", "~">> # <<>> /\ <<"1", "~">> # <<>> /\ <<"~">> # <<>>
  /\ <<"[", "A">> # <<"A">> /\ <<"[", "1", "~">> # <<"1", "~">>
  /\ <<"[", "1", "~">> # <<"~">> /\ <<"1", "~">> # <<"~">>
  /\ Len(<<"1", "~">>) = 2 /\ Len(<<"~">>) = 1 /\ Len(<<>>) = 0
OBVIOUS

(* The rest of an arrow's or Home's bytes, read from where they began.      *)
LEMMA RestRead ==
  ASSUME InputInv, NEW k \in Keys, ReadByte(k), rest # <<>>, key \in {"Up", "Home"}
  PROVE  /\ KeyRest'
         /\ from = 0 => /\ typing' = typing
                        /\ (key = "Up" /\ rest' = <<>>) => pushed' = "UP"
                        /\ (key = "Home" /\ Len(rest') = 1) => pushed' = "ENTER"
<1>1. rest' = Tail(rest) /\ key' = key /\ from' = from /\ Automaton(Head(rest)) /\ KeyRest
  BY DEF ReadByte, NextByte, InputInv
<1>2. CASE key = "Up" /\ rest = <<"[", "A">>
  <2>1. rest' = <<"A">> /\ Head(rest) = "["
    BY <1>1, <1>2, Rests
  <2>2. from = 0 => state = 1
    BY <1>1, <1>2 DEF KeyRest
  <2>3. from = 0 => state' = 2 /\ typing' = typing
    BY <1>1, <2>1, <2>2 DEF Automaton, Swallow
  <2> QED
    BY <1>1, <1>2, <2>1, <2>3, Lengths DEF KeyRest
<1>3. CASE key = "Up" /\ rest = <<"A">>
  <2>1. rest' = <<>> /\ Head(rest) = "A"
    BY <1>1, <1>3, Rests
  <2>2. from = 0 => state = 2
    BY <1>1, <1>3, Lengths DEF KeyRest
  <2>3. from = 0 => typing' = typing /\ pushed' = "UP"
    BY <1>1, <2>1, <2>2 DEF Automaton, Push
  <2> QED
    BY <1>1, <1>3, <2>1, <2>3, Lengths DEF KeyRest
<1>4. CASE key = "Home" /\ rest = <<"[", "1", "~">>
  <2>1. rest' = <<"1", "~">> /\ Head(rest) = "["
    BY <1>1, <1>4, Rests
  <2>2. from = 0 => state = 1
    BY <1>1, <1>4 DEF KeyRest
  <2>3. from = 0 => state' = 2 /\ typing' = typing
    BY <1>1, <2>1, <2>2 DEF Automaton, Swallow
  <2> QED
    BY <1>1, <1>4, <2>1, <2>3, Lengths DEF KeyRest
<1>5. CASE key = "Home" /\ rest = <<"1", "~">>
  <2>1. rest' = <<"~">> /\ Head(rest) = "1"
    BY <1>1, <1>5, Rests
  <2>2. from = 0 => state = 2
    BY <1>1, <1>5, Lengths DEF KeyRest
  <2>3. from = 0 => state' = 3 /\ typing' = typing /\ pushed' = "ENTER"
    BY <1>1, <2>1, <2>2 DEF Automaton, Push
  <2> QED
    BY <1>1, <1>5, <2>1, <2>3, Lengths DEF KeyRest
<1>6. CASE key = "Home" /\ rest = <<"~">>
  <2>1. rest' = <<>> /\ Head(rest) = "~"
    BY <1>1, <1>6, Rests
  <2>2. from = 0 => state = 3
    BY <1>1, <1>6, Lengths DEF KeyRest
  <2>3. from = 0 => typing' = typing
    BY <1>1, <2>1, <2>2 DEF Automaton, Swallow
  <2>4. Len(rest') # 1
    BY <2>1, Lengths
  <2> QED
    BY <1>1, <1>6, <2>1, <2>3, <2>4, Lengths DEF KeyRest
<1> QED
  BY <1>1, <1>2, <1>3, <1>4, <1>5, <1>6 DEF KeyRest

LEMMA RestAfter ==
  ASSUME InputInv, NEW k \in Keys, ReadByte(k)
  PROVE  KeyRest'
<1>1. CASE rest # <<>> /\ key \in {"Up", "Home"}
  BY <1>1, RestRead
<1>2. CASE rest # <<>> /\ key \notin {"Up", "Home"}
  BY <1>2 DEF InputInv, KeyRest
<1>3. CASE rest = <<>>
  <2>1. key' = k /\ rest' = Tail(KeyBytes(k)) /\ from' = state /\ Automaton(Head(KeyBytes(k)))
    BY <1>3 DEF ReadByte, NextByte
  <2>2. CASE k = "Up"
    <3>1. rest' = <<"[", "A">> /\ Head(KeyBytes(k)) = "ESC"
      BY <2>1, <2>2, KeyStarts
    <3>2. state = 0 => state' = 1
      BY <2>1, <3>1 DEF Automaton
    <3> QED
      BY <2>1, <2>2, <3>1, <3>2, Lengths DEF KeyRest
  <2>3. CASE k = "Home"
    <3>1. rest' = <<"[", "1", "~">> /\ Head(KeyBytes(k)) = "ESC"
      BY <2>1, <2>3, KeyStarts
    <3>2. state = 0 => state' = 1
      BY <2>1, <3>1 DEF Automaton
    <3> QED
      BY <2>1, <2>3, <3>1, <3>2, Lengths DEF KeyRest
  <2>4. CASE k \notin {"Up", "Home"}
    <3>1. rest' = <<>>
      BY <2>1, <2>4, KeyStarts
    <3> QED
      BY <2>1, <2>4, <3>1 DEF KeyRest
  <2> QED
    BY <2>2, <2>3, <2>4
<1> QED
  BY <1>1, <1>2, <1>3

LEMMA ByteOf ==
  ASSUME InputInv, NEW k \in Keys, ReadByte(k), NextByte(k) = "DEL"
  PROVE  key' = "DEL" \/ k = "DEL"
<1>1. CASE rest = <<>>
  <2>1. Head(KeyBytes(k)) = "DEL"
    BY <1>1 DEF NextByte
  <2> QED
    BY <2>1, KeyStarts
<1>2. CASE rest # <<>>
  <2>1. Head(rest) = "DEL"
    BY <1>2 DEF NextByte
  <2> QED
    BY <1>2, <2>1, Rests DEF InputInv, KeyRest
<1> QED
  BY <1>1, <1>2

LEMMA InputStep ==
  ASSUME InputInv, NextInput
  PROVE  /\ InputInv'
         /\ \/ IsPrefix(typing, typing')
            \/ phase = "enter"
            \/ phase = "handle" /\ pushed = "TYPED" /\ Lookup(Verb(typing)) # 0
            \/ phase = "read" /\ key' = "DEL" /\ Len(typing') + 1 = Len(typing)
<1>0. KeyRest /\ state \in 0..3 /\ typing \in Seq(Typed) /\ Len(typing) <= MaxTyped
  BY DEF InputInv, Typed
<1>1. IsPrefix(typing, typing) /\ <<>> \in Seq(Typed) /\ Len(<<>>) <= MaxTyped
  <2>1. \A x \in Typed : IsPrefix(typing, typing) /\ IsPrefix(typing, Append(typing, x))
    BY <1>0, PrefixStays
  <2>2. IsPrefix(typing, typing)
    BY <2>1 DEF Typed
  <2>3. Len(<<>>) <= MaxTyped
    BY InputAssumption
  <2> QED
    BY <2>2, <2>3, EmptySeq
<1>2. CASE EnterRoom
  <2>1. typing' = <<>> /\ KeyRest' /\ state' = state /\ phase = "enter"
    BY <1>0, <1>2 DEF EnterRoom, KeyRest
  <2> QED
    BY <1>0, <1>1, <2>1 DEF InputInv, Typed
<1>3. CASE Quit \/ ReadNothing \/ Move \/ Walk
  <2>1. typing' = typing /\ KeyRest' /\ state' = state
    BY <1>0, <1>3 DEF Quit, ReadNothing, Move, Walk, EndTick, KeyRest
  <2> QED
    BY <1>0, <1>1, <2>1 DEF InputInv, Typed
<1>4. ASSUME NEW r, HandleTyping(r)
      PROVE  /\ InputInv'
             /\ IsPrefix(typing, typing')
                 \/ (phase = "handle" /\ pushed = "TYPED" /\ Lookup(Verb(typing)) # 0)
  <2>1. KeyRest' /\ state' = state /\ typing' \in {typing, <<>>}
    BY <1>0, <1>4 DEF HandleTyping, EndTick, KeyRest
  <2>2. typing' = typing \/ (phase = "handle" /\ pushed = "TYPED" /\ Lookup(Verb(typing)) # 0)
    BY <1>4 DEF HandleTyping
  <2> QED
    BY <1>0, <1>1, <2>1, <2>2 DEF InputInv, Typed
<1>5. ASSUME NEW k \in Keys, ReadByte(k)
      PROVE  /\ InputInv'
             /\ IsPrefix(typing, typing')
                 \/ (phase = "read" /\ key' = "DEL" /\ Len(typing') + 1 = Len(typing))
  <2>1. KeyRest'
    BY <1>5, RestAfter
  <2>2. Automaton(NextByte(k)) /\ phase = "read"
    BY <1>5 DEF ReadByte
  <2>3. /\ state' \in 0..3 /\ typing' \in Seq(Typed) /\ Len(typing') <= MaxTyped
        /\ IsPrefix(typing, typing') \/ (NextByte(k) = "DEL" /\ Len(typing') + 1 = Len(typing))
    BY <2>2, ByteTypes
  <2>4. NextByte(k) = "DEL" => key' = "DEL"
    <3>1. ASSUME NextByte(k) = "DEL" PROVE key' = "DEL"
      <4>1. key' = k
        BY <1>5 DEF ReadByte
      <4> QED
        BY <1>5, <3>1, <4>1, ByteOf
    <3> QED
      BY <3>1
  <2> QED
    BY <2>1, <2>2, <2>3, <2>4 DEF InputInv, Typed
<1> QED
  BY <1>2, <1>3, <1>4, <1>5 DEF NextInput

LEMMA InputSame == ASSUME InputInv, UNCHANGED input PROVE InputInv'
BY DEF InputInv, KeyRest, input

(* A key's bytes not yet read stand where the automaton is, and the typed   *)
(* line fits its buffer: for every MAX_TYPED_LEN.                           *)
THEOREM InputInvariance == Spec => []InputInv
<1>1. Init => InputInv
  BY InputInit DEF Init
<1>2. InputInv /\ [Next]_vars => InputInv'
  BY InputStep, InputSame DEF Next, Main, Loop, Leave, vars, input
<1> QED
  BY <1>1, <1>2, PTL DEF Spec

(* The typed line loses text only to the delete key, to a recognised command *)
(* or with the room.                                                        *)
THEOREM TextStays == Spec => TextKept
<1>1. InputInv /\ [Next]_vars =>
        [~IsPrefix(typing, typing') =>
           \/ phase = "enter"
           \/ phase = "handle" /\ pushed = "TYPED" /\ Lookup(Verb(typing)) # 0
           \/ phase = "read" /\ key' = "DEL" /\ Len(typing') + 1 = Len(typing)]_input
  BY InputStep DEF Next, Main, Loop, Leave, vars, input
<1> QED
  BY <1>1, InputInvariance, PTL DEF Spec, TextKept

(* An arrow or Home gives its command and types nothing, wherever the ticks *)
(* of the event loop split its bytes.                                       *)
THEOREM KeysKeepMeaning == Spec => KeysSurviveTicks
<1>1. ASSUME InputInv, [Next]_vars
      PROVE  [(key \in {"Up", "Home"} /\ from = 0 /\ rest # <<>> /\ rest' # rest) =>
                /\ typing' = typing
                /\ (key = "Up" /\ rest' = <<>>) => pushed' = "UP"
                /\ (key = "Home" /\ Len(rest') = 1) => pushed' = "ENTER"]_input
  <2>1. ASSUME key \in {"Up", "Home"}, from = 0, rest # <<>>, rest' # rest
        PROVE  \E k \in Keys : ReadByte(k)
    <3>1. NextInput
      BY <1>1, <2>1 DEF Next, Main, Loop, Leave, vars, input
    <3> QED
      BY <2>1, <3>1 DEF NextInput, EnterRoom, Quit, ReadNothing, Move, Walk, HandleTyping, EndTick
  <2> QED
    BY <1>1, <2>1, RestRead
<1> QED
  BY <1>1, InputInvariance, PTL DEF Spec, KeysSurviveTicks

----------------------------------------------------------------------------
(* The verbs. The letters that the table's verbs are made of, an entry's    *)
(* verb and its shortest abbreviation.                                      *)
Space == " "

Alphabet == {"a", "b", "c", "d", "e", "f", "g", "h", "i", "k", "l",
             "n", "o", "p", "r", "s", "t", "u", "v", "w", "x", "y"}

Name(e) == CmdList[e][1]
Least(e) == CmdList[e][2]

LEMMA LettersNotBlank == Space \notin Alphabet
BY Zenon DEF Space, Alphabet

(* The table, entry by entry.                                               *)
LEMMA Spelling ==
  /\ Name(1) = <<"b","u","y">>
  /\ Name(2) = <<"c","h","a","r","g","e">>
  /\ Name(3) = <<"d","o">>
  /\ Name(4) = <<"d","r","i","n","k">>
  /\ Name(5) = <<"d","r","o","p">>
  /\ Name(6) = <<"f","i","x">>
  /\ Name(7) = <<"f","l","a","s","h">>
  /\ Name(8) = <<"g","e","t">>
  /\ Name(9) = <<"g","o">>
  /\ Name(10) = <<"g","r","a","b">>
  /\ Name(11) = <<"i","n","s","t","a","l","l">>
  /\ Name(12) = <<"i","n","v","e","n","t","o","r","y">>
  /\ Name(13) = <<"s","i","g","h">>
  /\ Name(14) = <<"u","s","e">>
  /\ Name(15) = <<"w","e","a","r">>
BY DEF Name, CmdList

LEMMA NameLengths ==
  /\ Len(Name(1)) = 3 /\ Len(Name(2)) = 6 /\ Len(Name(3)) = 2
  /\ Len(Name(4)) = 5 /\ Len(Name(5)) = 4 /\ Len(Name(6)) = 3
  /\ Len(Name(7)) = 5 /\ Len(Name(8)) = 3 /\ Len(Name(9)) = 2
  /\ Len(Name(10)) = 4 /\ Len(Name(11)) = 7 /\ Len(Name(12)) = 9
  /\ Len(Name(13)) = 4 /\ Len(Name(14)) = 3 /\ Len(Name(15)) = 4
BY Spelling

LEMMA LeastLengths ==
  /\ Least(1) = 3 /\ Least(2) = 2 /\ Least(3) = 2 /\ Least(4) = 3 /\ Least(5) = 2
  /\ Least(6) = 3 /\ Least(7) = 5 /\ Least(8) = 1 /\ Least(9) = 2 /\ Least(10) = 2
  /\ Least(11) = 3 /\ Least(12) = 1 /\ Least(13) = 4 /\ Least(14) = 3 /\ Least(15) = 4
BY DEF Least, CmdList

LEMMA EntriesAre == Entries = {1, 2, 3, 4, 5, 6, 7, 8, 9, 10, 11, 12, 13, 14, 15}
<1>1. Len(CmdList) = 15
  BY DEF CmdList
<1> QED
  BY <1>1 DEF Entries

(* An abbreviation is not longer than its verb.                             *)
LEMMA Named ==
  ASSUME NEW e \in Entries
  PROVE  /\ Name(e) \in Seq(Alphabet)
         /\ 2 <= Len(Name(e)) /\ 1 <= Least(e) /\ Least(e) <= Len(Name(e))
         /\ Len(Name(e)) \in Nat /\ Least(e) \in Nat
<1>1. e \in {1, 2, 3, 4, 5, 6, 7, 8, 9, 10, 11, 12, 13, 14, 15}
  BY EntriesAre
<1>2. Name(e) \in Seq(Alphabet)
  <2>1. Name(1) \in Seq(Alphabet)
    <3>1. <<"b","u","y">> \in Seq(Alphabet)
      BY DEF Alphabet
    <3> QED
      BY Zenon, <3>1, Spelling
  <2>2. Name(2) \in Seq(Alphabet)
    <3>1. <<"c","h","a","r","g","e">> \in Seq(Alphabet)
      BY DEF Alphabet
    <3> QED
      BY Zenon, <3>1, Spelling
  <2>3. Name(3) \in Seq(Alphabet)
    <3>1. <<"d","o">> \in Seq(Alphabet)
      BY DEF Alphabet
    <3> QED
      BY Zenon, <3>1, Spelling
  <2>4. Name(4) \in Seq(Alphabet)
    <3>1. <<"d","r","i","n","k">> \in Seq(Alphabet)
      BY DEF Alphabet
    <3> QED
      BY Zenon, <3>1, Spelling
  <2>5. Name(5) \in Seq(Alphabet)
    <3>1. <<"d","r","o","p">> \in Seq(Alphabet)
      BY DEF Alphabet
    <3> QED
      BY Zenon, <3>1, Spelling
  <2>6. Name(6) \in Seq(Alphabet)
    <3>1. <<"f","i","x">> \in Seq(Alphabet)
      BY DEF Alphabet
    <3> QED
      BY Zenon, <3>1, Spelling
  <2>7. Name(7) \in Seq(Alphabet)
    <3>1. <<"f","l","a","s","h">> \in Seq(Alphabet)
      BY DEF Alphabet
    <3> QED
      BY Zenon, <3>1, Spelling
  <2>8. Name(8) \in Seq(Alphabet)
    <3>1. <<"g","e","t">> \in Seq(Alphabet)
      BY DEF Alphabet
    <3> QED
      BY Zenon, <3>1, Spelling
  <2>9. Name(9) \in Seq(Alphabet)
    <3>1. <<"g","o">> \in Seq(Alphabet)
      BY DEF Alphabet
    <3> QED
      BY Zenon, <3>1, Spelling
  <2>10. Name(10) \in Seq(Alphabet)
    <3>1. <<"g","r","a","b">> \in Seq(Alphabet)
      BY DEF Alphabet
    <3> QED
      BY Zenon, <3>1, Spelling
  <2>11. Name(11) \in Seq(Alphabet)
    <3>1. <<"i","n","s","t","a","l","l">> \in Seq(Alphabet)
      BY DEF Alphabet
    <3> QED
      BY Zenon, <3>1, Spelling
  <2>12. Name(12) \in Seq(Alphabet)
    <3>1. <<"i","n","v","e","n","t","o","r","y">> \in Seq(Alphabet)
      BY DEF Alphabet
    <3> QED
      BY Zenon, <3>1, Spelling
  <2>13. Name(13) \in Seq(Alphabet)
    <3>1. <<"s","i","g","h">> \in Seq(Alphabet)
      BY DEF Alphabet
    <3> QED
      BY Zenon, <3>1, Spelling
  <2>14. Name(14) \in Seq(Alphabet)
    <3>1. <<"u","s","e">> \in Seq(Alphabet)
      BY DEF Alphabet
    <3> QED
      BY Zenon, <3>1, Spelling
  <2>15. Name(15) \in Seq(Alphabet)
    <3>1. <<"w","e","a","r">> \in Seq(Alphabet)
      BY DEF Alphabet
    <3> QED
      BY Zenon, <3>1, Spelling
  <2> QED
    BY Zenon, <1>1, <2>1, <2>2, <2>3, <2>4, <2>5, <2>6, <2>7, <2>8, <2>9, <2>10, <2>11, <2>12,
      <2>13, <2>14, <2>15
<1>3. /\ 2 <= Len(Name(e)) /\ 1 <= Least(e) /\ Least(e) <= Len(Name(e))
      /\ Len(Name(e)) \in Nat /\ Least(e) \in Nat
  <2>1. Len(Name(e)) \in {2, 3, 4, 5, 6, 7, 9} /\ Least(e) \in {1, 2, 3, 4, 5}
    BY <1>1, NameLengths, LeastLengths
  <2>2. \/ Least(e) \in {1, 2} \/ (Least(e) = 3 /\ Len(Name(e)) \in {3, 5, 7})
        \/ Least(e) = Len(Name(e))
    BY <1>1, NameLengths, LeastLengths
  <2>3. \A l \in {2, 3, 4, 5, 6, 7, 9}, k \in {1, 2, 3, 4, 5} :
          /\ 2 <= l /\ 1 <= k /\ l \in Nat /\ k \in Nat
          /\ k \in {1, 2} \/ (k = 3 /\ l \in {3, 5, 7}) \/ k = l => k <= l
    OBVIOUS
  <2> QED
    BY <2>1, <2>2, <2>3
<1> QED
  BY <1>2, <1>3

LEMMA Initials ==
  /\ Name(1)[1] = "b" /\ Name(1)[2] = "u" /\ Name(1)[3] = "y"
  /\ Name(2)[1] = "c" /\ Name(2)[2] = "h" /\ Name(2)[3] = "a"
  /\ Name(3)[1] = "d" /\ Name(3)[2] = "o"
  /\ Name(4)[1] = "d" /\ Name(4)[2] = "r" /\ Name(4)[3] = "i"
  /\ Name(5)[1] = "d" /\ Name(5)[2] = "r" /\ Name(5)[3] = "o"
  /\ Name(6)[1] = "f" /\ Name(6)[2] = "i" /\ Name(6)[3] = "x"
  /\ Name(7)[1] = "f" /\ Name(7)[2] = "l" /\ Name(7)[3] = "a"
  /\ Name(8)[1] = "g" /\ Name(8)[2] = "e" /\ Name(8)[3] = "t"
  /\ Name(9)[1] = "g" /\ Name(9)[2] = "o"
  /\ Name(10)[1] = "g" /\ Name(10)[2] = "r" /\ Name(10)[3] = "a"
  /\ Name(11)[1] = "i" /\ Name(11)[2] = "n" /\ Name(11)[3] = "s"
  /\ Name(12)[1] = "i" /\ Name(12)[2] = "n" /\ Name(12)[3] = "v"
  /\ Name(13)[1] = "s" /\ Name(13)[2] = "i" /\ Name(13)[3] = "g"
  /\ Name(14)[1] = "u" /\ Name(14)[2] = "s" /\ Name(14)[3] = "e"
  /\ Name(15)[1] = "w" /\ Name(15)[2] = "e" /\ Name(15)[3] = "a"
BY Spelling

(* The verbs of e and f differ in letter i, and an abbreviation of one of   *)
(* them has that letter.                                                    *)
DiffersAt(e, f, i) ==
  /\ i <= Len(Name(e)) /\ i <= Len(Name(f)) /\ (i <= Least(e) \/ i <= Least(f))
  /\ Name(e)[i] # Name(f)[i]

(* Two entries differ early enough: no word abbreviates both.               *)
LEMMA Apart ==
  ASSUME NEW e \in Entries, NEW f \in Entries, e # f
  PROVE  DiffersAt(e, f, 1) \/ DiffersAt(e, f, 2) \/ DiffersAt(e, f, 3)
<1>1. {e, f} \subseteq {1, 2, 3, 4, 5, 6, 7, 8, 9, 10, 11, 12, 13, 14, 15}
  BY EntriesAre
<1>2. CASE Name(e)[1] # Name(f)[1]
  <2>1. 1 <= Len(Name(e)) /\ 1 <= Len(Name(f)) /\ 1 <= Least(e)
    BY Named
  <2> QED
    BY <1>2, <2>1 DEF DiffersAt
<1>3. CASE Name(e)[1] = Name(f)[1]
  <2>1. \/ {e, f} \subseteq {3, 4, 5} \/ {e, f} \subseteq {6, 7}
        \/ {e, f} \subseteq {8, 9, 10} \/ {e, f} \subseteq {11, 12}
    BY <1>1, <1>3, Initials
  <2>2. /\ DiffersAt(3, 4, 2) /\ DiffersAt(3, 5, 2) /\ DiffersAt(4, 5, 3)
        /\ DiffersAt(6, 7, 2) /\ DiffersAt(11, 12, 3)
        /\ DiffersAt(8, 9, 2) /\ DiffersAt(8, 10, 2) /\ DiffersAt(9, 10, 2)
    <3>1. /\ Name(3)[2] # Name(4)[2] /\ Name(3)[2] # Name(5)[2] /\ Name(4)[3] # Name(5)[3]
          /\ Name(6)[2] # Name(7)[2] /\ Name(11)[3] # Name(12)[3]
          /\ Name(8)[2] # Name(9)[2] /\ Name(8)[2] # Name(10)[2] /\ Name(9)[2] # Name(10)[2]
      BY Initials
    <3>2. DiffersAt(3, 4, 2) /\ DiffersAt(3, 5, 2) /\ DiffersAt(4, 5, 3)
      BY <3>1, NameLengths, LeastLengths DEF DiffersAt
    <3>3. DiffersAt(6, 7, 2) /\ DiffersAt(11, 12, 3)
      BY <3>1, NameLengths, LeastLengths DEF DiffersAt
    <3>4. DiffersAt(8, 9, 2) /\ DiffersAt(8, 10, 2) /\ DiffersAt(9, 10, 2)
      BY <3>1, NameLengths, LeastLengths DEF DiffersAt
    <3> QED
      BY <3>2, <3>3, <3>4
  <2>3. \A g, h, i : DiffersAt(g, h, i) => DiffersAt(h, g, i)
    BY DEF DiffersAt
  <2> QED
    BY <2>1, <2>2, <2>3
<1> QED
  BY <1>2, <1>3

(* The places that Verb looks for, and what it cuts out there.              *)
FirstOther(text, b) == SelectInSeq(text, LAMBDA c : c # b)
FirstSame(text, b) == SelectInSeq(text, LAMBDA c : c = b)

Stripped(text, b) ==
  IF FirstOther(text, b) = 0 THEN <<>> ELSE SubSeq(text, FirstOther(text, b), Len(text))

UpTo(text, b) ==
  IF FirstSame(text, b) = 0 THEN text ELSE SubSeq(text, 1, FirstSame(text, b) - 1)

VerbTo(text, b) == UpTo(Stripped(text, b), b)

LEMMA VerbIs == ASSUME NEW text PROVE Verb(text) = VerbTo(text, Space)
BY DEF Verb, VerbTo, UpTo, Stripped, FirstOther, FirstSame, Space

LEMMA FirstOf ==
  ASSUME NEW I \in SUBSET Nat, NEW m \in I, \A i \in I : m <= i
  PROVE  Min(I) = m /\ I # {}
<1>1. \A x \in I : (\A y \in I : x <= y) => x = m
  OBVIOUS
<1> QED
  BY <1>1 DEF Min

(* Whatever blanks come before it, the first word is what Verb returns.     *)
LEMMA VerbFound ==
  ASSUME NEW S, NEW b \in S, NEW t \in Seq(S), \A i \in 1 .. Len(t) : t[i] = b,
         NEW w \in Seq(S), Len(w) > 0, \A i \in 1 .. Len(w) : w[i] # b
  PROVE  VerbTo(t \o w \o <<b>>, b) = w
<1> DEFINE n == Len(t)
           m == Len(w)
           text == t \o w \o <<b>>
           behind == w \o <<b>>
<1>1. n \in Nat /\ m \in Nat /\ m > 0
  BY LenProperties
<1>2. <<b>> \in Seq(S) /\ Len(<<b>>) = 1 /\ <<b>>[1] = b
  OBVIOUS
<1>3. /\ t \o w \in Seq(S) /\ Len(t \o w) = n + m
      /\ \A i \in 1 .. (n + m) : (t \o w)[i] = IF i <= n THEN t[i] ELSE w[i - n]
  BY ConcatProperties
<1>4. /\ text \in Seq(S) /\ Len(text) = n + m + 1
      /\ \A i \in 1 .. (n + m + 1) :
           text[i] = IF i <= n + m THEN (t \o w)[i] ELSE <<b>>[i - (n + m)]
  BY <1>2, <1>3, ConcatProperties
<1>5. /\ behind \in Seq(S) /\ Len(behind) = m + 1
      /\ \A i \in 1 .. (m + 1) : behind[i] = IF i <= m THEN w[i] ELSE <<b>>[i - m]
  BY <1>2, ConcatProperties
<1>6. \A i \in 1 .. (n + m + 1) :
        text[i] = IF i <= n THEN b ELSE IF i <= n + m THEN w[i - n] ELSE b
  <2> TAKE i \in 1 .. (n + m + 1)
  <2>1. CASE i <= n
    BY <1>1, <1>3, <1>4, <2>1
  <2>2. CASE n < i /\ i <= n + m
    BY <1>1, <1>3, <1>4, <2>2
  <2>3. CASE i = n + m + 1
    BY <1>1, <1>2, <1>4, <2>3
  <2> QED
    BY <1>1, <2>1, <2>2, <2>3
<1>7. \A i \in 1 .. (m + 1) : behind[i] = IF i <= m THEN w[i] ELSE b
  <2> TAKE i \in 1 .. (m + 1)
  <2>1. CASE i <= m
    BY <1>5, <2>1
  <2>2. CASE i = m + 1
    BY <1>1, <1>2, <1>5, <2>2
  <2> QED
    BY <1>1, <2>1, <2>2
<1> HIDE DEF n, m, text, behind
<1>8. FirstOther(text, b) = n + 1
  <2> DEFINE I == {i \in 1 .. Len(text) : text[i] # b}
  <2>1. n + 1 \in I /\ \A i \in I : n + 1 <= i
    <3>1. text[n + 1] = w[1] /\ w[1] # b
      <4>1. PICK j \in 1 .. (n + m + 1) : j = n + 1
        BY <1>1
      <4>2. j - n = 1 /\ ~(j <= n) /\ j <= n + m /\ 1 \in 1 .. m
        BY <1>1, <4>1
      <4>3. text[j] = w[j - n] /\ \A i \in 1 .. m : w[i] # b
        BY <1>6, <4>2 DEF m
      <4> QED
        BY <4>1, <4>2, <4>3
    <3>2. \A i \in 1 .. (n + m + 1) : text[i] # b => n + 1 <= i
      BY <1>1, <1>6
    <3>3. n + 1 \in 1 .. Len(text) /\ Len(text) = n + m + 1
      BY <1>1, <1>4
    <3> QED
      BY <3>1, <3>2, <3>3
  <2>2. I \in SUBSET Nat
    BY <1>1, <1>4
  <2>3. Min(I) = n + 1 /\ I # {}
    <3> HIDE DEF I
    <3> QED
      BY <2>1, <2>2, FirstOf
  <2> QED
    BY <2>3 DEF FirstOther, SelectInSeq
<1>9. SubSeq(text, n + 1, Len(text)) = behind
  <2> DEFINE r == SubSeq(text, n + 1, Len(text))
  <2>1. /\ r \in Seq(S) /\ Len(r) = m + 1
        /\ \A i \in 1 .. (m + 1) : r[i] = text[n + 1 + i - 1]
    <3>1. n + 1 \in Int /\ Len(text) \in Int /\ \A i \in (n + 1) .. Len(text) : text[i] \in S
      BY <1>1, <1>4
    <3>2. /\ r \in Seq(S)
          /\ Len(r) = IF n + 1 <= Len(text) THEN Len(text) - (n + 1) + 1 ELSE 0
          /\ \A i \in 1 .. (Len(text) - (n + 1) + 1) : r[i] = text[(n + 1) + i - 1]
      BY <3>1, SubSeqProperties
    <3>3. n + 1 <= Len(text) /\ Len(text) - (n + 1) + 1 = m + 1
      BY <1>1, <1>4
    <3> QED
      BY <3>2, <3>3
  <2>2. \A i \in 1 .. (m + 1) : r[i] = behind[i]
    <3> TAKE i \in 1 .. (m + 1)
    <3>1. r[i] = text[n + i] /\ n + i \in 1 .. (n + m + 1)
      <4>1. n + 1 + i - 1 = n + i /\ n + i \in 1 .. (n + m + 1)
        BY <1>1
      <4> QED
        BY <2>1, <4>1
    <3>2. ~(n + i <= n) /\ (n + i <= n + m <=> i <= m) /\ n + i - n = i
      BY <1>1
    <3>3. text[n + i] = IF i <= m THEN w[i] ELSE b
      <4>1. PICK j \in 1 .. (n + m + 1) : j = n + i
        BY <3>1
      <4>2. text[j] = IF j <= n THEN b ELSE IF j <= n + m THEN w[j - n] ELSE b
        BY <1>6
      <4>3. j - n = i /\ ~(j <= n) /\ (j <= n + m <=> i <= m)
        BY <1>1, <4>1
      <4>4. text[j] = IF i <= m THEN w[j - n] ELSE b
        BY <4>2, <4>3
      <4> QED
        BY <4>1, <4>3, <4>4
    <3> QED
      BY <1>7, <3>1, <3>3
  <2> HIDE DEF r
  <2>3. r = behind
    BY <1>5, <2>1, <2>2, SeqEqual
  <2> QED
    BY <2>3 DEF r
<1>10. FirstSame(behind, b) = m + 1
  <2> DEFINE I == {i \in 1 .. Len(behind) : behind[i] = b}
  <2>1. m + 1 \in I /\ \A i \in I : m + 1 <= i
    <3>1. \A i \in 1 .. m : behind[i] # b
      BY <1>1, <1>7 DEF m
    <3> QED
      BY <1>1, <1>5, <1>7, <3>1
  <2>2. I \in SUBSET Nat
    BY <1>1, <1>5
  <2>3. Min(I) = m + 1 /\ I # {}
    <3> HIDE DEF I
    <3> QED
      BY <2>1, <2>2, FirstOf
  <2> QED
    BY <2>3 DEF FirstSame, SelectInSeq
<1>11. SubSeq(behind, 1, m) = w
  <2>1. SubSeq(w \o <<b>>, 1, m) = SubSeq(w, 1, m)
    <3>1. 1 \in 1 .. m /\ m \in 1 .. m
      BY <1>1
    <3> QED
      BY <1>2, <3>1, SubSeqOfConcat1 DEF m
  <2> QED
    BY <2>1, SubSeqFull DEF behind, m
<1>12. n + 1 # 0 /\ m + 1 # 0 /\ m + 1 - 1 = m
  BY <1>1
<1>13. Stripped(text, b) = behind
  BY <1>8, <1>9, <1>12 DEF Stripped
<1>14. UpTo(behind, b) = w
  <2>1. FirstSame(behind, b) # 0 /\ FirstSame(behind, b) - 1 = m
    BY <1>1, <1>10, <1>12
  <2> QED
    BY Zenon, <1>11, <2>1 DEF UpTo
<1>15. VerbTo(text, b) = w
  BY <1>13, <1>14 DEF VerbTo
<1> QED
  BY Zenon, <1>15 DEF text

(* The first n letters of a verb.                                           *)
LEMMA WordIs ==
  ASSUME NEW e \in Entries, NEW n \in Nat, Least(e) <= n, n <= Len(Name(e))
  PROVE  LET w == SubSeq(Name(e), 1, n)
         IN  /\ w \in Seq(Alphabet) /\ Len(w) = n
             /\ \A i \in 1 .. n : w[i] = Name(e)[i]
             /\ SubSeq(w, 1, n) = w
<1> DEFINE w == SubSeq(Name(e), 1, n)
<1>1. Name(e) \in Seq(Alphabet) /\ 1 <= Least(e) /\ Len(Name(e)) \in Nat /\ Least(e) \in Nat
  BY Named
<1>2. 1 \in Int /\ n \in Int /\ n >= 1 /\ \A i \in 1 .. n : Name(e)[i] \in Alphabet
  <2>1. \A i \in 1 .. Len(Name(e)) : Name(e)[i] \in Alphabet
    BY <1>1, LenProperties
  <2> QED
    BY <1>1, <2>1
<1>3. /\ w \in Seq(Alphabet) /\ Len(w) = IF 1 <= n THEN n - 1 + 1 ELSE 0
      /\ \A i \in 1 .. (n - 1 + 1) : w[i] = Name(e)[1 + i - 1]
  BY <1>2, SubSeqProperties
<1>4. n - 1 + 1 = n /\ \A i \in 1 .. n : 1 + i - 1 = i
  BY <1>2
<1>5. w \in Seq(Alphabet) /\ Len(w) = n /\ \A i \in 1 .. n : w[i] = Name(e)[i]
  <2> HIDE DEF w
  <2> QED
    BY <1>2, <1>3, <1>4
<1>6. SubSeq(w, 1, n) = w
  <2> HIDE DEF w
  <2> QED
    BY <1>5, SubSeqFull
<1> QED
  BY <1>5, <1>6

(* An abbreviation of an entry matches that entry and no other.             *)
LEMMA OnlyOneMatches ==
  ASSUME NEW e \in Entries, NEW n \in Nat, Least(e) <= n, n <= Len(Name(e)), NEW f \in Entries
  PROVE  Matches(f, SubSeq(Name(e), 1, n)) <=> f = e
<1> DEFINE w == SubSeq(Name(e), 1, n)
<1>1. /\ w \in Seq(Alphabet) /\ Len(w) = n /\ SubSeq(w, 1, n) = w
      /\ \A i \in 1 .. n : w[i] = Name(e)[i]
  BY WordIs
<1>2. CASE f = e
  <2>1. IsPrefix(w, Name(e))
    BY <1>1 DEF IsPrefix
  <2> QED
    BY <1>1, <1>2, <2>1 DEF Matches, Name, Least
<1>3. ASSUME f # e, Matches(f, w) PROVE FALSE
  <2>1. Least(f) <= n /\ n <= Len(Name(f)) /\ w = SubSeq(Name(f), 1, n)
    <3> HIDE DEF w
    <3> QED
      BY <1>1, <1>3 DEF Matches, IsPrefix, Name, Least
  <2>2. \A i \in 1 .. n : w[i] = Name(f)[i]
    BY <2>1, WordIs
  <2>3. \A i \in {1, 2, 3} : ~DiffersAt(e, f, i)
    <3>1. SUFFICES ASSUME NEW i \in {1, 2, 3}, DiffersAt(e, f, i) PROVE FALSE
      OBVIOUS
    <3>2. Least(e) \in Nat /\ Least(f) \in Nat
      BY Named
    <3>3. i \in 1 .. n
      BY <2>1, <3>1, <3>2 DEF DiffersAt
    <3>4. Name(e)[i] = Name(f)[i]
      BY <1>1, <2>2, <3>3
    <3> QED
      BY <3>1, <3>4 DEF DiffersAt
  <2> QED
    BY <1>3, <2>3, Apart
<1> QED
  BY <1>2, <1>3

(* So the lookup finds the entry.                                           *)
LEMMA FindsEntry ==
  ASSUME NEW e \in Entries, NEW n \in Nat, Least(e) <= n, n <= Len(Name(e))
  PROVE  Lookup(SubSeq(Name(e), 1, n)) = e
<1> DEFINE found == {f \in Entries : Matches(f, SubSeq(Name(e), 1, n))}
<1>1. found = {e}
  BY OnlyOneMatches
<1>2. e <= e
  BY EntriesAre
<1>3. (CHOOSE g \in {e} : \A f \in {e} : g <= f) = e
  BY <1>2
<1> QED
  BY <1>1, <1>3 DEF Lookup

(* What is typed as a command's verb, in full or as short as the table      *)
(* allows, behind any blanks, is found as that command: no entry of the     *)
(* table shadows another and none is out of reach (typed_a_command and the  *)
(* table of commands).                                                      *)
THEOREM VerbsFound == Spec => []VerbsReachable
<1>1. ASSUME InputInv PROVE VerbsReachable
  <2> SUFFICES ASSUME \A i \in 1 .. Len(typing) : typing[i] = Space,
                      NEW e \in Entries, NEW n \in {Least(e), Len(Name(e))}
               PROVE  LET found == Lookup(Verb(typing \o SubSeq(Name(e), 1, n) \o <<Space>>))
                      IN  found # 0 /\ CmdList[found][3] = CmdList[e][3]
    BY DEF VerbsReachable, Space, Name, Least
  <2> DEFINE S == Typed \cup Alphabet \cup {Space}
             w == SubSeq(Name(e), 1, n)
  <2>1. Name(e) \in Seq(Alphabet) /\ n \in Nat /\ Least(e) <= n /\ n <= Len(Name(e)) /\ n >= 1
    BY Named
  <2>2. w \in Seq(Alphabet) /\ Len(w) = n /\ \A i \in 1 .. n : w[i] # Space
    <3>1. w \in Seq(Alphabet) /\ Len(w) = n
      BY <2>1, WordIs
    <3>2. \A i \in 1 .. n : w[i] \in Alphabet
      BY <3>1, LenProperties
    <3> QED
      BY <3>1, <3>2, LettersNotBlank
  <2>3. typing \in Seq(S) /\ w \in Seq(S) /\ Space \in S
    <3>1. typing \in Seq(Typed)
      BY <1>1 DEF InputInv, Typed
    <3> QED
      BY <2>2, <3>1, SeqMonotonic
  <2> HIDE DEF S, w
  <2>4. VerbTo(typing \o w \o <<Space>>, Space) = w
    BY <2>1, <2>2, <2>3, VerbFound
  <2>5. Verb(typing \o w \o <<Space>>) = w
    BY <2>4, VerbIs
  <2>6. Lookup(w) = e
    BY <2>1, FindsEntry DEF w
  <2>7. e # 0
    BY EntriesAre
  <2> QED
    BY <2>5, <2>6, <2>7 DEF w
<1> QED
  BY <1>1, InputInvariance, PTL

----------------------------------------------------------------------------
(* The status thread.                                                       *)
(* The deadline of a timed wait is at least Delay after the last message.   *)
DeadlineCovers == helper = "timed" => left + age >= Delay

StatusInv == TypeOK /\ NoLostMessage /\ DeadlineCovers

LEMMA StatusInit == InitStatus => StatusInv
  BY StatusAssumption DEF InitStatus, StatusInv, TypeOK, NoLostMessage, DeadlineCovers,
     None, Blank

LEMMA PostInv == ASSUME StatusInv, NEW m \in Msgs, Post(m) PROVE StatusInv'
  BY StatusAssumption DEF StatusInv, TypeOK, NoLostMessage, DeadlineCovers, Post, Signalled

LEMMA HelperInv == ASSUME StatusInv, Helper PROVE StatusInv'
<1> USE StatusAssumption DEF StatusInv, TypeOK, NoLostMessage, DeadlineCovers
<1>1. CASE Lock
  BY <1>1 DEF Lock, AwaitMessage, SetDeadline
<1>2. CASE Rearm
  BY <1>2 DEF Rearm, SetDeadline
<1>3. CASE Expire
  BY <1>3 DEF Expire
<1>4. CASE Clear
  BY <1>4 DEF Clear
<1> QED BY <1>1, <1>2, <1>3, <1>4 DEF Helper

LEMMA TimeInv == ASSUME StatusInv, Time PROVE StatusInv'
  BY StatusAssumption DEF StatusInv, TypeOK, NoLostMessage, DeadlineCovers, Time, CountLeft

LEMMA SpuriousInv == ASSUME StatusInv, Spurious PROVE StatusInv'
  BY StatusAssumption DEF StatusInv, TypeOK, NoLostMessage, DeadlineCovers, Spurious, Signalled

(* The game thread's drawing disturbs only its own place and the bar.       *)
LEMMA DrawInv == ASSUME StatusInv, Draw \/ NextTick PROVE StatusInv'
<1> USE DEF StatusInv, TypeOK, NoLostMessage, DeadlineCovers
<1>1. CASE CheckMessage
  BY <1>1 DEF CheckMessage, Look
<1>2. CASE Measure
  BY <1>2 DEF Measure, Look
<1>3. CASE TestFirst
  BY <1>3 DEF TestFirst, Look
<1>4. CASE DrawLetters
  BY <1>4 DEF DrawLetters
<1>5. CASE NextTick
  BY <1>5 DEF NextTick
<1> QED BY <1>1, <1>2, <1>3, <1>4, <1>5 DEF Draw

LEMMA StatusStep == StatusInv /\ [NextStatus]_status => StatusInv'
<1> SUFFICES ASSUME StatusInv, [NextStatus]_status PROVE StatusInv'
  OBVIOUS
<1>1. CASE UNCHANGED status
  BY <1>1 DEF status, StatusInv, TypeOK, NoLostMessage, DeadlineCovers
<1>2. CASE NextStatus
  BY <1>2, PostInv, HelperInv, TimeInv, SpuriousInv, DrawInv DEF NextStatus
<1> QED BY <1>1, <1>2

(* The helper and the game thread keep the deadline of a timed wait far     *)
(* enough from the last show_status, in every interleaving.                 *)
THEOREM StatusInvariance == SpecStatus => []StatusInv
  BY StatusInit, StatusStep, PTL DEF SpecStatus

(* No message is shown while status_thread waits without a deadline.        *)
THEOREM NoneLost == SpecStatus => []NoLostMessage
<1>1. StatusInv => NoLostMessage
  BY DEF StatusInv
<1> QED BY <1>1, StatusInvariance, PTL

(* pthread_cond_timedwait never times out on a message younger than Delay.  *)
THEOREM TimesOutLate == SpecStatus => ExpiresInTime
<1>1. ASSUME StatusInv, [NextStatus]_status
      PROVE [helper' = "expired" /\ helper # "expired" => age >= Delay]_status
  <2> SUFFICES ASSUME helper' = "expired", helper # "expired", NextStatus
               PROVE age >= Delay
    BY <1>1 DEF status
  <2>1. CASE Expire
    BY <1>1, <2>1, StatusAssumption DEF Expire, StatusInv, TypeOK, DeadlineCovers
  <2>2. ~Expire => helper' # "expired" \/ helper = "expired"
    BY DEF NextStatus, Post, Spurious, Signalled, Helper, Lock, AwaitMessage, Rearm,
       SetDeadline, Clear, Time, Draw, CheckMessage, Measure, TestFirst, Look,
       DrawLetters, NextTick
  <2> QED BY <2>1, <2>2
<1> QED BY <1>1, StatusInvariance, PTL DEF SpecStatus, ExpiresInTime

(* What the message still has before it: a wake-up, the time left, the      *)
(* deletion.                                                                *)
Remaining ==
  CASE helper \in {"lock", "rearm"} -> Delay + 3
    [] helper = "timed" -> left + 2
    [] OTHER -> 1

(* Nothing is posted and no wait ends by itself.                            *)
Undisturbed == ~Spurious /\ \A m \in Msgs : ~Post(m)

(* A message left alone runs out: until it is deleted every step of the     *)
(* helper and all time that passes of its wait leave less, and nothing that *)
(* the game thread does prolongs it.  Once it is deleted none comes back,   *)
(* and the first drawing that begins after shows the room, to stay.         *)
RunsOut ==
  [][Undisturbed =>
       /\ msg # None =>
            \/ msg' = None /\ helper = "expired"
            \/ /\ msg' = msg /\ Remaining \in Nat /\ Remaining' \in Nat
               /\ Remaining' <= Remaining
               /\ Helper \/ (helper = "timed" /\ left' # left) => Remaining' < Remaining
       /\ msg = None =>
            /\ msg' = None
            /\ CheckMessage \/ (bar = Idle /\ game \in {"play", "check"}) =>
                 bar' = Idle /\ game' \in {"play", "check"}]_status

LEMMA RunStep ==
  ASSUME StatusInv, NextStatus, Undisturbed, msg # None
  PROVE  \/ msg' = None /\ helper = "expired"
         \/ /\ msg' = msg /\ Remaining \in Nat /\ Remaining' \in Nat
            /\ Remaining' <= Remaining
            /\ Helper \/ (helper = "timed" /\ left' # left) => Remaining' < Remaining
<1> USE StatusAssumption DEF Remaining
<1>1. /\ helper \in {"lock", "timed", "rearm", "expired"} /\ left \in 0..Delay /\ left \in Nat
      /\ Delay \in Nat
  BY DEF StatusInv, TypeOK, NoLostMessage
<1>2. CASE Lock
  BY <1>1, <1>2 DEF Lock, AwaitMessage, SetDeadline
<1>3. CASE Rearm
  BY <1>1, <1>3 DEF Rearm, SetDeadline
<1>4. CASE Expire
  BY <1>1, <1>4 DEF Expire
<1>5. CASE Clear
  BY <1>5 DEF Clear
<1>6. CASE Time /\ ~Helper
  <2>1. /\ msg' = msg /\ helper' = helper /\ left' \in Nat
        /\ left' <= left /\ (left' # left => left' < left)
    BY <1>1, <1>6 DEF Time, CountLeft
  <2> QED
    BY <1>1, <1>6, <2>1
<1>7. CASE (Draw \/ NextTick) /\ ~Helper
  <2>1. UNCHANGED <<msg, helper, left>>
    BY <1>7 DEF Draw, NextTick, CheckMessage, Measure, TestFirst, Look, DrawLetters
  <2> QED
    BY <1>1, <1>7, <2>1
<1> QED
  BY <1>2, <1>3, <1>4, <1>5, <1>6, <1>7 DEF NextStatus, Helper, Undisturbed

LEMMA IdleStep ==
  ASSUME StatusInv, NextStatus, Undisturbed, msg = None
  PROVE  /\ msg' = None
         /\ CheckMessage \/ (bar = Idle /\ game \in {"play", "check"}) =>
              bar' = Idle /\ game' \in {"play", "check"}
<1>1. CASE Helper
  BY <1>1 DEF Helper, Lock, AwaitMessage, SetDeadline, Rearm, Expire, Clear, CheckMessage, Look
<1>2. CASE Time
  BY <1>2 DEF Time, CheckMessage, Look
<1>3. CASE CheckMessage
  BY <1>3 DEF CheckMessage, Look
<1>4. CASE Measure \/ TestFirst \/ DrawLetters \/ NextTick
  BY <1>4 DEF CheckMessage, Measure, TestFirst, Look, DrawLetters, NextTick
<1> QED
  BY <1>1, <1>2, <1>3, <1>4 DEF NextStatus, Draw, Undisturbed

(* Whatever the two threads do to each other, a message is not shown for    *)
(* ever: the helper always comes nearer to its deletion and the bar to the  *)
(* room (status_thread, show_status and status_bar_to_VGA).                 *)
THEOREM MessageRunsOut == SpecStatus => RunsOut
<1>1. StatusInv /\ [NextStatus]_status =>
        [Undisturbed =>
           /\ msg # None =>
                \/ msg' = None /\ helper = "expired"
                \/ /\ msg' = msg /\ Remaining \in Nat /\ Remaining' \in Nat
                   /\ Remaining' <= Remaining
                   /\ Helper \/ (helper = "timed" /\ left' # left) => Remaining' < Remaining
           /\ msg = None =>
                /\ msg' = None
                /\ CheckMessage \/ (bar = Idle /\ game \in {"play", "check"}) =>
                     bar' = Idle /\ game' \in {"play", "check"}]_status
  BY RunStep, IdleStep
<1> QED
  BY <1>1, StatusInvariance, PTL DEF SpecStatus, RunsOut
=============================================================================
