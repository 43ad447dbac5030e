------------------------------- MODULE TrayProofs -------------------------------
(***************************************************************************)
(* Theorems about Tray, for any projects, settings and bounds.             *)
(***************************************************************************)
EXTENDS Tray, TLAPS, Integers, FiniteSetTheorems, SequenceTheorems

USE DEF Monitors, Threads

-----------------------------------------------------------------------------
(* Types. *)

LEMMA InitIsTyped == Init => TypeOK
<1>1. <<>> \in Seq(SUBSET Projects) /\ Len(<<>>) = 0
  BY EmptySeq
<1>2. <<>> \in Seq(Messages)
  <2>1. \A S : <<>> \in Seq(S)
    BY EmptySeq
  <2> QED BY <2>1
<1> SUFFICES ASSUME Init PROVE TypeOK
  OBVIOUS
<1>3. asking \in [Monitors -> Seq(SUBSET Projects)] /\ Len(asking["idle"]) <= 1
  BY <1>1 DEF Init
<1>4. at \in [Threads -> {"wait", "fetch", "assign", "stop", "record", "start", "dead"}]
      /\ list \in [Monitors -> SUBSET Projects]
  BY DEF Init
<1>5. seen \in [Threads -> [active : SUBSET Projects, config : Choices \union {{}}]]
  BY DEF Init
<1> QED BY <1>2, <1>3, <1>4, <1>5 DEF Init, TypeOK

(* The parts under the lock of both monitors' handlers.                    *)
LEMMA TriggerIsTyped ==
    ASSUME TypeOK, NEW t \in Monitors, NEW setting, Trigger(t, setting)
    PROVE  /\ at' \in [Threads -> {"wait", "fetch", "assign", "stop", "record", "start", "dead"}]
           /\ list' \in [Monitors -> SUBSET Projects]
           /\ UNCHANGED <<remembered, asking>>
BY DEF Trigger, TypeOK, Goto

LEMMA TakeIsTyped ==
    ASSUME TypeOK, NEW t \in Monitors, TakeRemembered(t), t = "idle" => asking[t] = <<>>
    PROVE  /\ remembered' \subseteq Projects /\ UNCHANGED <<at, list>>
           /\ asking' \in [Monitors -> Seq(SUBSET Projects)] /\ Len(asking'["idle"]) <= 1
<1>1. asking[t] \in Seq(SUBSET Projects) /\ remembered \in SUBSET Projects
  BY DEF TypeOK
<1>2. /\ Append(asking[t], remembered) \in Seq(SUBSET Projects)
      /\ Len(Append(asking[t], remembered)) = Len(asking[t]) + 1
  BY <1>1, AppendProperties
<1>3. t = "idle" => Len(asking[t]) = 0
  BY EmptySeq
<1>4. CASE asking' = asking
  BY <1>4 DEF TakeRemembered, TypeOK
<1>5. CASE asking' = [asking EXCEPT ![t] = Append(@, remembered)]
  <2>1. asking'[t] = Append(asking[t], remembered)
        /\ asking' \in [Monitors -> Seq(SUBSET Projects)]
        /\ \A u \in Monitors \ {t} : asking'[u] = asking[u]
    BY <1>2, <1>5 DEF TypeOK
  <2>2. Len(asking'["idle"]) <= 1
    BY <1>2, <1>3, <2>1 DEF TypeOK
  <2> QED BY <2>1, <2>2 DEF TakeRemembered
<1> QED BY <1>4, <1>5 DEF TakeRemembered

(* An answered prompt is the innermost one.                                *)
LEMMA AnsweredPrompt ==
    ASSUME TypeOK, NEW t \in Monitors, asking[t] # <<>>
    PROVE  LET last == Len(asking[t])
               rest == SubSeq(asking[t], 1, last - 1)
           IN  /\ last \in Nat \ {0} /\ asking[t][last] \in SUBSET Projects
               /\ DOMAIN asking[t] = 1 .. last
               /\ rest \in Seq(SUBSET Projects) /\ Len(rest) = last - 1
               /\ DOMAIN rest = 1 .. (last - 1)
               /\ \A i \in 1 .. (last - 1) : rest[i] = asking[t][i]
<1> DEFINE last == Len(asking[t])
           rest == SubSeq(asking[t], 1, last - 1)
<1>1. asking[t] \in Seq(SUBSET Projects)
  BY DEF TypeOK
<1>2. last \in Nat \ {0} /\ DOMAIN asking[t] = 1 .. last
      /\ asking[t] \in [1 .. last -> SUBSET Projects]
  BY <1>1, EmptySeq, LenProperties
<1>3. asking[t][last] \in SUBSET Projects /\ \A i \in 1 .. (last - 1) : asking[t][i] \in SUBSET Projects
  BY <1>2
<1>4. /\ rest \in Seq(SUBSET Projects)
      /\ Len(rest) = IF 1 <= last - 1 THEN last - 1 - 1 + 1 ELSE 0
      /\ \A i \in 1 .. (last - 1) - 1 + 1 : rest[i] = asking[t][1 + i - 1]
  BY <1>2, <1>3, SubSeqProperties
<1>5. Len(rest) = last - 1
  BY <1>2, <1>4
<1>6. DOMAIN rest = 1 .. (last - 1)
  BY <1>4, <1>5, LenProperties
<1>7. \A i \in 1 .. (last - 1) : rest[i] = asking[t][i]
  <2>1. (last - 1) - 1 + 1 = last - 1 /\ \A i \in 1 .. (last - 1) : 1 + i - 1 = i
    BY <1>2
  <2> QED BY <1>4, <2>1
<1> QED BY <1>2, <1>3, <1>4, <1>5, <1>6, <1>7

LEMMA AnswerIsTyped ==
    ASSUME TypeOK, NEW t \in Monitors, Answer(t)
    PROVE  TypeOK'
<1> DEFINE last == Len(asking[t])
           rest == SubSeq(asking[t], 1, last - 1)
<1>1. /\ last \in Nat \ {0} /\ asking[t][last] \in SUBSET Projects
      /\ rest \in Seq(SUBSET Projects) /\ Len(rest) = last - 1
  BY AnsweredPrompt DEF Answer
<1>2. asking' = [asking EXCEPT ![t] = rest]
  BY DEF Answer
<1>3. asking' \in [Monitors -> Seq(SUBSET Projects)] /\ asking'[t] = rest
      /\ \A u \in Monitors \ {t} : asking'[u] = asking[u]
  BY <1>1, <1>2 DEF TypeOK
<1>4. Len(asking'["idle"]) <= 1
  BY <1>1, <1>3 DEF TypeOK
<1>5. /\ at' \in [Threads -> {"wait", "fetch", "assign", "stop", "record", "start", "dead"}]
      /\ list' \in [Monitors -> SUBSET Projects]
  BY <1>1 DEF Answer, Goto, TypeOK
<1> QED BY <1>3, <1>4, <1>5 DEF Answer, TypeOK, api, copy, user

LEMMA UserIsTyped ==
    ASSUME TypeOK, User
    PROVE  TypeOK'
<1>1. TrackedChanges => tracked' \subseteq Projects
  BY DEF TrackedChanges, TypeOK
<1>2. CASE OtherClient \/ ChangeSettings \/ MenuCommand
  BY <1>1, <1>2 DEF OtherClient, ChangeSettings, MenuCommand, TypeOK, copy, user
<1>3. CASE InputChanges
  BY <1>3 DEF InputChanges, TypeOK, api, copy
<1>4. ASSUME NEW c \in Causes, Leave(c) \/ Return(c)
      PROVE  TypeOK'
  <2>1. /\ [cause |-> c, kind |-> "leave"] \in Messages
        /\ [cause |-> c, kind |-> "return"] \in Messages /\ queue \in Seq(Messages)
    BY DEF Messages, TypeOK
  <2>2. queue' \in Seq(Messages)
    <3>1. ASSUME NEW message \in Messages
          PROVE  /\ Append(queue, message) \in Seq(Messages)
                 /\ queue \o <<message, message>> \in Seq(Messages)
      <4>1. <<message, message>> \in Seq(Messages)
        OBVIOUS
      <4> QED BY <2>1, <4>1, AppendProperties, ConcatProperties
    <3> QED BY <1>4, <2>1, <3>1 DEF Leave, Return
  <2> QED BY <1>4, <2>2 DEF Leave, Return, TypeOK, api, copy
<1> QED BY <1>2, <1>3, <1>4, AnswerIsTyped DEF User

LEMMA ThreadsAreTyped ==
    ASSUME TypeOK, (\E t \in Threads : Refresh(t)) \/ (\E t \in Monitors : Handler(t))
    PROVE  TypeOK'
<1>1. ASSUME NEW t \in Threads, Fetch(t) PROVE TypeOK'
  <2>1. [active |-> tracked, config |-> settings]
            \in [active : SUBSET Projects, config : Choices \union {{}}]
    BY DEF TypeOK
  <2> QED BY <1>1, <2>1 DEF Fetch, Goto, TypeOK, api, copy, user
<1>2. ASSUME NEW t \in Threads, Assign(t) PROVE TypeOK'
  <2>1. seen[t] \in [active : SUBSET Projects, config : Choices \union {{}}]
    BY DEF TypeOK
  <2> QED BY <1>2, <2>1 DEF Assign, Goto, TypeOK, api, user
<1>3. ASSUME NEW t \in Threads, FetchFails(t) PROVE TypeOK'
  BY <1>3 DEF FetchFails, Goto, AfterError, TypeOK, api, user
<1>4. ASSUME NEW t \in Monitors, StopAll(t) \/ StopAllFails(t) PROVE TypeOK'
  BY <1>4 DEF StopAll, StopAllFails, Goto, TypeOK, copy, user
<1>5. ASSUME NEW t \in Monitors, Record(t) PROVE TypeOK'
  BY <1>5 DEF Record, Goto, TypeOK, api, copy, user
<1>6. ASSUME NEW t \in Monitors, StartNext(t) PROVE TypeOK'
  BY <1>6 DEF StartNext, Goto, TypeOK, copy, user
<1> QED BY <1>1, <1>2, <1>3, <1>4, <1>5, <1>6 DEF Refresh, Handler

LEMMA NextIsTyped == TypeOK /\ [Next]_vars => TypeOK'
<1> SUFFICES ASSUME TypeOK, [Next]_vars PROVE TypeOK'
  OBVIOUS
<1>1. CASE UNCHANGED vars
  BY <1>1 DEF vars, TypeOK
<1>2. CASE Dispatch
  <2>1. queue' \in Seq(Messages)
    BY <1>2, HeadTailProperties DEF Dispatch, TypeOK
  <2>2. CASE Trigger("events", Head(queue).cause)
    BY <1>2, <2>1, <2>2, TriggerIsTyped DEF Dispatch, TypeOK, api, copy
  <2>3. CASE TakeRemembered("events")
    <3>1. "events" \in Monitors /\ "events" # "idle"
      OBVIOUS
    <3> QED BY <1>2, <2>1, <2>3, <3>1, TakeIsTyped DEF Dispatch, TypeOK, api, copy
  <2> QED BY <1>2, <2>2, <2>3 DEF Dispatch
<1>3. CASE NoticeIdle
  BY <1>3, TriggerIsTyped DEF NoticeIdle, TypeOK, api, copy, user
<1>4. CASE NoticeActive
  BY <1>4, TakeIsTyped DEF NoticeActive, IdleFree, TypeOK, api, copy, user
<1>5. CASE ForgetIdle
  BY <1>5 DEF ForgetIdle, TypeOK, api, copy, user
<1> QED BY <1>1, <1>2, <1>3, <1>4, <1>5, UserIsTyped, ThreadsAreTyped DEF Next, IdleTick

(* The state of the tray keeps its types; in particular the idle thread,   *)
(* which waits for an answer, never has two prompts open.                  *)
THEOREM TypeTheorem == Spec => []TypeOK
<1> QED BY InitIsTyped, NextIsTyped, PTL DEF Spec

-----------------------------------------------------------------------------
(* Offers. *)

Memory == <<"memory", 0>>

(* The three kinds of holders, one by one. *)
Holds(h, p) ==
    \/ h = Memory /\ p \in remembered
    \/ \E t \in Monitors : h = <<t, 0>> /\ at[t] = "start" /\ p \in list[t]
    \/ \E t \in Monitors : \E i \in DOMAIN asking[t] : h = <<t, i>> /\ p \in asking[t][i]

LEMMA HolderKinds == \A p, h : h \in Holders(p) <=> Holds(h, p)
BY DEF Holders, Holds, Memory

LEMMA HolderKindsNext == (\A p, h : h \in Holders(p) <=> Holds(h, p))'
BY HolderKinds, PTL

LEMMA HoldersAreFinite ==
    ASSUME TypeOK, NEW p
    PROVE  IsFiniteSet(Holders(p)) /\ Offers(p) \in Nat
<1> DEFINE prompts(t) == {t} \X DOMAIN asking[t]
           all == ({Memory} \cup {<<"events", 0>>} \cup {<<"idle", 0>>})
                      \cup (prompts("events") \cup prompts("idle"))
<1>1. ASSUME NEW t \in Monitors PROVE IsFiniteSet(prompts(t))
  <2>1. Len(asking[t]) \in Nat /\ DOMAIN asking[t] = 1 .. Len(asking[t])
    BY LenProperties DEF TypeOK
  <2>2. IsFiniteSet(1 .. Len(asking[t]))
    BY <2>1, FS_Interval
  <2> QED BY <2>1, <2>2, FS_Singleton, FS_Product
<1>2. IsFiniteSet(prompts("events")) /\ IsFiniteSet(prompts("idle"))
  BY <1>1
<1>3. IsFiniteSet({Memory} \cup {<<"events", 0>>} \cup {<<"idle", 0>>})
  BY FS_Singleton, FS_Union
<1>4. IsFiniteSet(all)
  BY <1>2, <1>3, FS_Union
<1>5. Holders(p) \in SUBSET all
  BY HolderKinds DEF Holds
<1>6. IsFiniteSet(Holders(p))
  BY <1>4, <1>5, FS_Subset
<1> QED BY <1>6, FS_CardinalityType DEF Offers

LEMMA HoldersStayFinite == \A p : TypeOK => IsFiniteSet(Holders(p)) /\ Offers(p) \in Nat
BY HoldersAreFinite

LEMMA HoldersStayFiniteNext ==
    (\A p : TypeOK => IsFiniteSet(Holders(p)) /\ Offers(p) \in Nat)'
BY HoldersStayFinite, PTL

(* What each step has to show, p by p: the bodies of the two properties. *)
GainsAreStops(p) ==
    Offers(p)' > Offers(p) => \E t \in Monitors : at[t] = "record" /\ p \in list[t]

LossesAreAnswers(p) ==
    Offers(p)' < Offers(p) =>
        \/ \E t \in Monitors : Len(asking'[t]) < Len(asking[t])
        \/ \E t \in Monitors : at[t] = "start" /\ p \in list[t] \ list'[t]
        \/ p \in remembered /\ "prompt" \notin config

(* Fewer holders hold no more offers, and more no fewer.                   *)
LEMMA FewerHolders ==
    ASSUME TypeOK, TypeOK', NEW p
    PROVE  /\ (\A h : Holds(h, p)' => Holds(h, p)) => GainsAreStops(p)
           /\ (\A h : Holds(h, p) => Holds(h, p)') => LossesAreAnswers(p)
<1>1. IsFiniteSet(Holders(p)) /\ Offers(p) \in Nat /\ Offers(p) = Cardinality(Holders(p))
  BY HoldersAreFinite DEF Offers
<1>2. IsFiniteSet(Holders(p))' /\ Offers(p)' \in Nat /\ Offers(p)' = Cardinality(Holders(p)')
  BY HoldersStayFiniteNext DEF Offers
<1>3. ASSUME \A h : Holds(h, p)' => Holds(h, p)
      PROVE  ~ (Offers(p)' > Offers(p))
  <2>1. Holders(p)' \in SUBSET Holders(p)
    BY <1>3, HolderKinds, HolderKindsNext
  <2> QED BY <1>1, <1>2, <2>1, FS_Subset
<1>4. ASSUME \A h : Holds(h, p) => Holds(h, p)'
      PROVE  ~ (Offers(p)' < Offers(p))
  <2>1. Holders(p) \in SUBSET Holders(p)'
    BY <1>4, HolderKinds, HolderKindsNext
  <2> QED BY <1>1, <1>2, <2>1, FS_Subset
<1> QED BY <1>3, <1>4 DEF GainsAreStops, LossesAreAnswers

(* One holder in the place of another. *)
LEMMA Replaced ==
    ASSUME NEW S, IsFiniteSet(S), NEW a \in S, NEW b, b \notin S
    PROVE  /\ IsFiniteSet((S \ {a}) \cup {b})
           /\ Cardinality((S \ {a}) \cup {b}) = Cardinality(S)
<1>1. Cardinality(S) \in Nat
  BY FS_CardinalityType
<1>2. IsFiniteSet(S \ {a}) /\ Cardinality(S \ {a}) = Cardinality(S) - 1
  BY FS_RemoveElement
<1>3. b \notin S \ {a}
  OBVIOUS
<1>4. IsFiniteSet((S \ {a}) \cup {b})
      /\ Cardinality((S \ {a}) \cup {b}) = Cardinality(S \ {a}) + 1
  BY <1>2, <1>3, FS_AddElement
<1> QED BY <1>1, <1>2, <1>4

LEMMA HandedOn ==
    ASSUME TypeOK, TypeOK', NEW p, NEW a, NEW b, Holds(a, p), ~ Holds(b, p),
           \A h : Holds(h, p)' => h = b \/ (h # a /\ Holds(h, p))
    PROVE  /\ GainsAreStops(p)
           /\ (\A h : (h # a /\ Holds(h, p)) \/ h = b => Holds(h, p)') => LossesAreAnswers(p)
<1> PICK S : S = Holders(p)
  OBVIOUS
<1> PICK T : T = Holders(p)'
  OBVIOUS
<1> DEFINE swapped == (S \ {a}) \cup {b}
<1>1. IsFiniteSet(S) /\ Offers(p) = Cardinality(S) /\ Cardinality(S) \in Nat
  BY HoldersAreFinite, FS_CardinalityType DEF Offers
<1>2. IsFiniteSet(T) /\ Offers(p)' = Cardinality(T) /\ Cardinality(T) \in Nat
  BY HoldersStayFiniteNext, FS_CardinalityType DEF Offers
<1>3. a \in S /\ b \notin S /\ T \in SUBSET swapped
  BY HolderKinds, HolderKindsNext
<1>4. IsFiniteSet(swapped) /\ Cardinality(swapped) = Cardinality(S)
  BY <1>1, <1>3, Replaced
<1>5. Cardinality(T) <= Cardinality(S)
  BY <1>3, <1>4, FS_Subset
<1>6. ASSUME \A h : (h # a /\ Holds(h, p)) \/ h = b => Holds(h, p)'
      PROVE  T = swapped
  BY <1>3, <1>6, HolderKinds, HolderKindsNext
<1>7. ~ (Offers(p)' > Offers(p))
  BY <1>1, <1>2, <1>4, <1>5
<1>8. T = swapped => ~ (Offers(p)' < Offers(p))
  BY <1>1, <1>2, <1>4
<1> QED BY <1>6, <1>7, <1>8 DEF GainsAreStops, LossesAreAnswers

(* The steps. *)

(* Neither the memory nor a prompt nor what a thread starts changes.       *)
LEMMA OffersStay ==
    ASSUME TypeOK, TypeOK', UNCHANGED <<remembered, asking>>,
           \A u \in Monitors : at[u] = "start" \/ at'[u] = "start" =>
               at'[u] = at[u] /\ list'[u] = list[u],
           NEW p
    PROVE  GainsAreStops(p) /\ LossesAreAnswers(p)
<1>1. \A h : Holds(h, p)' <=> Holds(h, p)
  BY DEF Holds
<1> QED BY <1>1, FewerHolders

LEMMA RecordOffers ==
    ASSUME TypeOK, TypeOK', NEW t \in Monitors, Record(t), NEW p
    PROVE  GainsAreStops(p) /\ LossesAreAnswers(p)
<1>1. /\ remembered' = remembered \union list[t] /\ UNCHANGED asking
      /\ at[t] = "record" /\ at'[t] = "fetch"
      /\ \A u \in Monitors \ {t} : at'[u] = at[u] /\ list'[u] = list[u]
  BY DEF Record, Goto, TypeOK
<1>2. \A h : Holds(h, p) => Holds(h, p)'
  BY <1>1 DEF Holds
<1>3. p \notin list[t] => \A h : Holds(h, p)' => Holds(h, p)
  BY <1>1 DEF Holds
<1>4. p \in list[t] => GainsAreStops(p)
  BY <1>1 DEF GainsAreStops
<1> QED BY <1>2, <1>3, <1>4, FewerHolders

(* An offer in the memory moves to the prompt that is opened.              *)
LEMMA TakeOffers ==
    ASSUME TypeOK, TypeOK', NEW t \in Monitors, TakeRemembered(t), NEW p
    PROVE  GainsAreStops(p) /\ LossesAreAnswers(p)
<1> DEFINE new == Len(asking[t]) + 1
<1>1. remembered' = {} /\ UNCHANGED <<at, list>>
  BY DEF TakeRemembered
<1>2. asking[t] \in Seq(SUBSET Projects) /\ Len(asking[t]) \in Nat
      /\ DOMAIN asking[t] = 1 .. Len(asking[t]) /\ remembered \in SUBSET Projects
  BY LenProperties DEF TypeOK
<1>3. CASE ~ (remembered # {} /\ "prompt" \in config)
  <2>1. asking' = asking
    BY <1>3 DEF TakeRemembered
  <2>2. \A h : Holds(h, p)' => Holds(h, p)
    BY <1>1, <2>1 DEF Holds
  <2>3. p \notin remembered => \A h : Holds(h, p) => Holds(h, p)'
    BY <1>1, <2>1 DEF Holds
  <2>4. p \in remembered => LossesAreAnswers(p)
    BY <1>3 DEF LossesAreAnswers
  <2> QED BY <2>2, <2>3, <2>4, FewerHolders
<1>4. CASE remembered # {} /\ "prompt" \in config
  <2>1. asking' = [asking EXCEPT ![t] = Append(@, remembered)]
    BY <1>4 DEF TakeRemembered
  <2>2. asking'[t] = Append(asking[t], remembered)
        /\ \A u \in Monitors \ {t} : asking'[u] = asking[u]
    BY <2>1 DEF TypeOK
  <2>3. /\ DOMAIN asking'[t] = 1 .. new /\ asking'[t][new] = remembered
        /\ \A i \in 1 .. Len(asking[t]) : asking'[t][i] = asking[t][i]
    <3>1. /\ Append(asking[t], remembered) \in Seq(SUBSET Projects)
          /\ Len(Append(asking[t], remembered)) = new
          /\ \A i \in 1 .. Len(asking[t]) : Append(asking[t], remembered)[i] = asking[t][i]
          /\ Append(asking[t], remembered)[new] = remembered
      BY <1>2, AppendProperties
    <3>2. DOMAIN Append(asking[t], remembered) = 1 .. new
      BY <3>1, LenProperties
    <3> QED BY <2>2, <3>1, <3>2
  <2>4. 1 .. new = (1 .. Len(asking[t])) \cup {new} /\ new \notin 1 .. Len(asking[t]) /\ new # 0
    BY <1>2
  <2>5. \A h : Holds(h, p)' <=>
                 \/ h = <<t, new>> /\ p \in remembered
                 \/ h # Memory /\ Holds(h, p)
    <3> SUFFICES ASSUME NEW h
                 PROVE  Holds(h, p)' <=> \/ h = <<t, new>> /\ p \in remembered
                                         \/ h # Memory /\ Holds(h, p)
      OBVIOUS
    <3>1. \A u \in Monitors : \A i \in DOMAIN asking[u] :
              i \in DOMAIN asking'[u] /\ asking'[u][i] = asking[u][i]
      BY <1>2, <2>2, <2>3, <2>4
    <3>2. \A u \in Monitors : \A i \in DOMAIN asking'[u] :
              (u = t /\ i = new) \/ (i \in DOMAIN asking[u] /\ asking'[u][i] = asking[u][i])
      BY <1>2, <2>2, <2>3, <2>4
    <3>3. ASSUME NEW u \in Monitors, NEW i \in DOMAIN asking'[u],
                 h = <<u, i>>, p \in asking'[u][i]
          PROVE  \/ h = <<t, new>> /\ p \in remembered
                 \/ h # Memory /\ Holds(h, p)
      <4>1. h # Memory
        BY <3>3 DEF Memory
      <4>2. CASE u = t /\ i = new
        BY <2>3, <3>3, <4>2
      <4>3. CASE i \in DOMAIN asking[u] /\ asking'[u][i] = asking[u][i]
        BY <3>3, <4>1, <4>3 DEF Holds
      <4> QED BY <3>2, <4>2, <4>3
    <3>4. ASSUME NEW u \in Monitors, h = <<u, 0>>, at[u] = "start", p \in list[u]
          PROVE  h # Memory /\ Holds(h, p) /\ Holds(h, p)'
      BY <1>1, <3>4 DEF Holds, Memory
    <3>5. ASSUME NEW u \in Monitors, NEW i \in DOMAIN asking[u],
                 h = <<u, i>>, p \in asking[u][i]
          PROVE  Holds(h, p)'
      BY <3>1, <3>5 DEF Holds
    <3>6. ASSUME h = <<t, new>>, p \in remembered
          PROVE  Holds(h, p)'
      <4>1. new \in DOMAIN asking'[t] /\ p \in asking'[t][new]
        BY <2>3, <2>4, <3>6
      <4> QED BY <3>6, <4>1 DEF Holds
    <3>7. Holds(h, p)' => \/ h = <<t, new>> /\ p \in remembered
                          \/ h # Memory /\ Holds(h, p)
      BY <1>1, <3>3, <3>4 DEF Holds
    <3>8. h # Memory /\ Holds(h, p) => Holds(h, p)'
      BY <3>4, <3>5 DEF Holds
    <3> QED BY <3>6, <3>7, <3>8
  <2>6. CASE p \notin remembered
    <3>1. \A h : Holds(h, p)' <=> Holds(h, p)
      BY <2>5, <2>6 DEF Holds, Memory
    <3> QED BY <3>1, FewerHolders
  <2>7. CASE p \in remembered
    <3>1. Holds(Memory, p) /\ ~ Holds(<<t, new>>, p)
      BY <1>2, <2>4, <2>7 DEF Holds, Memory
    <3> QED BY <2>5, <2>7, <3>1, HandedOn
  <2> QED BY <2>6, <2>7
<1> QED BY <1>3, <1>4

(* An offer in an answered prompt moves to what the thread starts.         *)
LEMMA AnswerOffers ==
    ASSUME TypeOK, TypeOK', NEW t \in Monitors, Answer(t), NEW p
    PROVE  GainsAreStops(p) /\ LossesAreAnswers(p)
<1> DEFINE last == Len(asking[t])
           rest == SubSeq(asking[t], 1, last - 1)
<1>1. /\ last \in Nat \ {0}
      /\ DOMAIN asking[t] = 1 .. last
      /\ Len(rest) = last - 1 /\ DOMAIN rest = 1 .. (last - 1)
      /\ \A i \in 1 .. (last - 1) : rest[i] = asking[t][i]
  BY AnsweredPrompt DEF Answer
<1>2. /\ asking'[t] = rest /\ \A u \in Monitors \ {t} : asking'[u] = asking[u]
      /\ UNCHANGED remembered /\ at[t] = "wait"
  BY DEF Answer, TypeOK
<1>3. LossesAreAnswers(p)
  BY <1>1, <1>2 DEF LossesAreAnswers
<1>4. 1 .. last = (1 .. (last - 1)) \cup {last} /\ last \notin 1 .. (last - 1) /\ last # 0
  BY <1>1
<1>5. /\ \A u \in Monitors \ {t} : at'[u] = at[u] /\ list'[u] = list[u]
      /\ \/ at'[t] = "wait"
         \/ at'[t] = "start" /\ list'[t] = asking[t][last]
  BY <1>2 DEF Answer, Goto, TypeOK
<1>6. \A h : Holds(h, p)' =>
               \/ h = <<t, 0>> /\ p \in asking[t][last]
               \/ h # <<t, last>> /\ Holds(h, p)
  <2> SUFFICES ASSUME NEW h, Holds(h, p)'
               PROVE  \/ h = <<t, 0>> /\ p \in asking[t][last]
                      \/ h # <<t, last>> /\ Holds(h, p)
    OBVIOUS
  <2>1. CASE h = Memory /\ p \in remembered'
    BY <1>2, <2>1 DEF Holds, Memory
  <2>2. ASSUME NEW u \in Monitors, h = <<u, 0>>, at'[u] = "start", p \in list'[u]
        PROVE  \/ h = <<t, 0>> /\ p \in asking[t][last]
               \/ h # <<t, last>> /\ Holds(h, p)
    BY <1>4, <1>5, <2>2 DEF Holds
  <2>3. ASSUME NEW u \in Monitors, NEW i \in DOMAIN asking'[u],
               h = <<u, i>>, p \in asking'[u][i]
        PROVE  h # <<t, last>> /\ Holds(h, p)
    <3>1. i \in DOMAIN asking[u] /\ asking'[u][i] = asking[u][i] /\ (u = t => i # last)
      BY <1>1, <1>2, <1>4
    <3> QED BY <2>3, <3>1 DEF Holds
  <2> QED BY <2>1, <2>2, <2>3 DEF Holds
<1>7. CASE p \in asking[t][last]
  <2>1. Holds(<<t, last>>, p) /\ ~ Holds(<<t, 0>>, p)
    BY <1>1, <1>2, <1>7 DEF Holds, Memory
  <2> QED BY <1>3, <1>6, <2>1, HandedOn
<1>8. CASE p \notin asking[t][last]
  BY <1>3, <1>6, <1>8, FewerHolders
<1> QED BY <1>7, <1>8

LEMMA StartOffers ==
    ASSUME TypeOK, TypeOK', NEW t \in Monitors, StartNext(t), NEW p
    PROVE  GainsAreStops(p) /\ LossesAreAnswers(p)
<1>1. PICK q \in list[t] : /\ list' = [list EXCEPT ![t] = @ \ {q}]
                           /\ Goto(t, IF list[t] = {q} THEN "fetch" ELSE "start")
  BY DEF StartNext
<1>2. /\ at[t] = "start" /\ UNCHANGED <<remembered, asking>>
      /\ list'[t] = list[t] \ {q} /\ at'[t] = IF list[t] = {q} THEN "fetch" ELSE "start"
      /\ \A u \in Monitors \ {t} : at'[u] = at[u] /\ list'[u] = list[u]
  BY <1>1 DEF StartNext, Goto, TypeOK
<1>3. \A h : Holds(h, p)' => Holds(h, p)
  BY <1>2 DEF Holds
<1>4. CASE p = q
  <2>1. LossesAreAnswers(p)
    BY <1>1, <1>2, <1>4 DEF LossesAreAnswers
  <2> QED BY <1>3, <2>1, FewerHolders
<1>5. CASE p # q
  <2>1. p \in list[t] => p \in list'[t] /\ at'[t] = "start"
    BY <1>2, <1>5
  <2>2. \A h : Holds(h, p) => Holds(h, p)'
    BY <1>2, <2>1 DEF Holds
  <2> QED BY <1>3, <2>2, FewerHolders
<1> QED BY <1>4, <1>5

LEMMA NextOffers ==
    ASSUME TypeOK, TypeOK', [Next]_vars, NEW p
    PROVE  GainsAreStops(p) /\ LossesAreAnswers(p)
<1>1. CASE UNCHANGED vars
  BY <1>1, OffersStay DEF vars
<1>2. CASE OtherClient \/ ChangeSettings \/ MenuCommand \/ InputChanges
  BY <1>2, OffersStay DEF OtherClient, ChangeSettings, MenuCommand, InputChanges
<1>3. ASSUME NEW c \in Causes, Leave(c) \/ Return(c)
      PROVE  GainsAreStops(p) /\ LossesAreAnswers(p)
  BY <1>3, OffersStay DEF Leave, Return
<1>4. ASSUME NEW t \in Threads, Refresh(t)
      PROVE  GainsAreStops(p) /\ LossesAreAnswers(p)
  <2>1. UNCHANGED <<remembered, list, asking>>
    BY <1>4 DEF Refresh, Fetch, Assign, FetchFails
  <2>2. at[t] # "start" /\ at'[t] # "start" /\ \A u \in Threads \ {t} : at'[u] = at[u]
    BY <1>4 DEF Refresh, Fetch, Assign, FetchFails, Due, AfterError, Goto, TypeOK
  <2> QED BY <2>1, <2>2, OffersStay
<1>5. ASSUME NEW t \in Monitors, StopAll(t) \/ StopAllFails(t)
      PROVE  GainsAreStops(p) /\ LossesAreAnswers(p)
  <2>1. UNCHANGED <<remembered, asking>> /\ \A u \in Monitors \ {t} : list'[u] = list[u]
    BY <1>5 DEF StopAll, StopAllFails, TypeOK
  <2>2. at[t] # "start" /\ at'[t] # "start" /\ \A u \in Threads \ {t} : at'[u] = at[u]
    BY <1>5 DEF StopAll, StopAllFails, Goto, TypeOK
  <2> QED BY <2>1, <2>2, OffersStay
<1>6. ASSUME NEW t \in Monitors, NEW setting, Trigger(t, setting), at[t] = "wait"
      PROVE  GainsAreStops(p) /\ LossesAreAnswers(p)
  <2>1. UNCHANGED <<remembered, asking>> /\ \A u \in Monitors \ {t} : list'[u] = list[u]
    BY <1>6 DEF Trigger, TypeOK
  <2>2. at'[t] # "start" /\ \A u \in Threads \ {t} : at'[u] = at[u]
    BY <1>6 DEF Trigger, Goto, TypeOK
  <2> QED BY <1>6, <2>1, <2>2, OffersStay
<1>7. CASE Dispatch
  BY <1>6, <1>7, TakeOffers DEF Dispatch
<1>8. CASE NoticeIdle \/ NoticeActive
  BY <1>6, <1>8, TakeOffers DEF NoticeIdle, NoticeActive, IdleFree
<1>9. CASE ForgetIdle
  BY <1>9, OffersStay DEF ForgetIdle
<1> QED
  BY <1>1, <1>2, <1>3, <1>4, <1>5, <1>7, <1>8, <1>9, AnswerOffers, RecordOffers, StartOffers
  DEF Next, User, Handler, IdleTick

(* However the two monitors' handlers, the prompts open on their threads   *)
(* and the user's answers interleave, only recording a confirmed stop adds *)
(* an offer: neither taking the memory nor answering a prompt doubles one. *)
THEOREM GainsTheorem == Spec => OffersComeFromStops
<1>1. TypeOK /\ TypeOK' /\ [Next]_vars =>
        [ \A p \in Projects : Offers(p)' > Offers(p) =>
            \E t \in Monitors : at[t] = "record" /\ p \in list[t] ]_vars
  BY NextOffers DEF GainsAreStops
<1> QED BY <1>1, TypeTheorem, PTL DEF Spec, OffersComeFromStops

(* An offer only disappears when the user answers its prompt, when the     *)
(* project is tried, or when the prompt is switched off at the return: no  *)
(* later stop, second prompt or refresh in between loses it.               *)
THEOREM LossesTheorem == Spec => OffersAreNotLost
<1>1. TypeOK /\ TypeOK' /\ [Next]_vars =>
        [ \A p \in Projects : Offers(p)' < Offers(p) =>
            \/ \E t \in Monitors : Len(asking'[t]) < Len(asking[t])
            \/ \E t \in Monitors : at[t] = "start" /\ p \in list[t] \ list'[t]
            \/ p \in remembered /\ "prompt" \notin config ]_vars
  BY NextOffers DEF LossesAreAnswers
<1> QED BY <1>1, TypeTheorem, PTL DEF Spec, OffersAreNotLost

=============================================================================
