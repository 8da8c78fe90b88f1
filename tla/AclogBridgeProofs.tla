-------------------------- MODULE AclogBridgeProofs --------------------------
(***************************************************************************)
(* Proofs about AclogBridge, for any callsigns, identities, number of      *)
(* recent records asked for, and bounds.                                   *)
(***************************************************************************)
EXTENDS AclogBridge, SequenceTheorems, TLAPS

Received(i) == toBridge[i]
Entered(i) == Received(i).type = "ENTEREVENT"
Listed(i) == Received(i).type = "LISTRESPONSE"
Told(i) == Received(i).type = "GETUSERSETTINGSRESPONSE"

\* What is on its way was in ACLog's log before.
EntersLogged == \A i \in 1..Len(toBridge) : Entered(i) => Received(i).contact \in 1..Len(log)

Notes == Contact \cup {Blank}
Entry == [mycall : MaybeCall, operator : MaybeCall, setup : MaybeCall, note : Notes]
Logged == 1..Len(log)
Held == [contact : Logged, note : Notes]
Reasons == {"overtaken", "nomatch", "identity", "user_unavailable", "disconnected"}

\* TypeOK, in parts.
LogTyped ==
  /\ log \in Seq(Entry) /\ Len(log) <= MaxContacts
  /\ box \in {Blank, Len(log) + 1} /\ setup \in SetupCall
  /\ amended \subseteq Logged
WireTyped ==
  /\ open \in BOOLEAN /\ toBridge \in Seq(Message)
  /\ toAclog \in Seq({"LIST", "GETUSERSETTINGS"})
ClientTyped ==
  /\ pc \in {"dial", "read", "delay", "ingest"}
  /\ state \in [setup : MaybeCall, note : Notes]
  /\ pending \in {None} \cup Held
  /\ pc \in {"delay", "ingest"} => pending # None
  /\ pc = "dial" => pending = None
OutcomeTyped ==
  /\ imported \in Seq(Held)
  /\ skipped \subseteq Logged \X Reasons
  /\ lost \subseteq Logged /\ refused \subseteq Logged
CountsTyped == moved \in BOOLEAN /\ moves \in 0..MaxMoves /\ faults \in 0..MaxFaults

Typed == LogTyped /\ WireTyped /\ ClientTyped /\ OutcomeTyped /\ CountsTyped

LEMMA TypedIsTypeOK == Typed <=> TypeOK
  BY DEF Typed, LogTyped, WireTyped, ClientTyped, OutcomeTyped, CountsTyped, TypeOK,
         Notes, Entry, Logged, Held, Reasons

TypeInv == Typed /\ EntersLogged

-----------------------------------------------------------------------------
(***************************************************************************)
(* Messages, and the two things that happen to the stream of them.         *)
(***************************************************************************)
LEMMA MessageKinds ==
  ASSUME NEW m \in Message
  PROVE  /\ m.type = "ENTEREVENT" => m.contact \in Contact
         /\ m.type = "UPDATERESPONSE" => m.note \in Contact \cup {Blank}
         /\ m.type = "GETUSERSETTINGSRESPONSE" => m.call \in MaybeCall
         /\ m.type = "LISTRESPONSE" => m.contacts \in SUBSET Contact
  BY DEF Message, Enter, Update, Settings, ListReply, NoRecords

LEMMA Messages ==
  /\ \A c \in Contact : Enter(c) \in Message
  /\ \A n \in Contact \cup {Blank} : Update(n) \in Message
  /\ \A call \in MaybeCall : Settings(call) \in Message
  /\ \A cs \in SUBSET Contact : ListReply(cs) \in Message
  /\ NoRecords \in Message /\ NoRecords.type = "NORECORDS"
  BY DEF Message, NoRecords

LEMMA Sent ==
  ASSUME toBridge \in Seq(Message), NEW ms \in Seq(Message), Tell(ms)
  PROVE  /\ toBridge' \in Seq(Message)
         /\ Len(toBridge') = IF open THEN Len(toBridge) + Len(ms) ELSE Len(toBridge)
         /\ \A i \in 1..Len(toBridge) : toBridge'[i] = toBridge[i]
         /\ \A i \in 1..Len(toBridge') : i > Len(toBridge) =>
              /\ open
              /\ i - Len(toBridge) \in 1..Len(ms)
              /\ toBridge'[i] = ms[i - Len(toBridge)]
         /\ Len(toBridge) \in Nat /\ Len(ms) \in Nat
  <1>1. Len(toBridge) \in Nat /\ Len(ms) \in Nat
    OBVIOUS
  <1>2. CASE open
    <2>1. toBridge' = toBridge \o ms
      BY <1>2 DEF Tell
    <2>2. /\ toBridge' \in Seq(Message)
          /\ Len(toBridge') = Len(toBridge) + Len(ms)
          /\ \A i \in 1..Len(toBridge) + Len(ms) :
               toBridge'[i] = IF i <= Len(toBridge) THEN toBridge[i] ELSE ms[i - Len(toBridge)]
      BY <2>1, ConcatProperties
    <2> QED
      BY <1>1, <1>2, <2>2
  <1>3. CASE ~open
    BY <1>1, <1>3 DEF Tell
  <1> QED
    BY <1>2, <1>3

LEMMA Shifted ==
  ASSUME toBridge \in Seq(Message), NEW type, Receive(type)
  PROVE  /\ toBridge' \in Seq(Message)
         /\ Len(toBridge) \in Nat \ {0}
         /\ Len(toBridge') = Len(toBridge) - 1
         /\ \A i \in 1..Len(toBridge') : toBridge'[i] = toBridge[i + 1]
         /\ Head(toBridge) = toBridge[1] /\ Head(toBridge) \in Message
         /\ Head(toBridge).type = type /\ pc = "read"
  <1>1. /\ toBridge # <<>> /\ toBridge' = Tail(toBridge)
        /\ Head(toBridge).type = type /\ pc = "read"
    BY DEF Receive
  <1>2. Len(toBridge) \in Nat /\ Len(toBridge) # 0
    BY <1>1, EmptySeq
  <1>3. /\ Head(toBridge) \in Message
        /\ Tail(toBridge) \in Seq(Message)
        /\ Len(Tail(toBridge)) = Len(toBridge) - 1
        /\ \A i \in 1..Len(Tail(toBridge)) : Tail(toBridge)[i] = toBridge[i + 1]
    BY <1>1, HeadTailProperties
  <1>4. Head(toBridge) = toBridge[1]
    BY <1>1, <1>2
  <1> QED
    BY <1>1, <1>2, <1>3, <1>4

-----------------------------------------------------------------------------
(***************************************************************************)
(* Type correctness.                                                       *)
(***************************************************************************)
LEMMA LogFacts ==
  ASSUME Typed
  PROVE  /\ Len(log) \in Nat /\ Logged \subseteq Contact
         /\ \A c \in Logged : log[c] \in Entry /\ log[c].note \in Notes
         /\ setup \in MaybeCall
  <1>1. Len(log) \in Nat /\ \A c \in 1..Len(log) : log[c] \in Entry
    BY LenProperties, ElementOfSeq DEF Typed, LogTyped
  <1>2. Len(log) <= MaxContacts /\ MaxContacts \in Nat /\ setup \in MaybeCall
    BY BridgeAssumption DEF Typed, LogTyped
  <1> QED
    BY <1>1, <1>2 DEF Logged, Contact, Entry

LEMMA InitTyped == Init => TypeInv
  <1> SUFFICES ASSUME Init PROVE TypeInv
    OBVIOUS
  <1>1. Len(log) = 0 /\ Len(toBridge) = 0 /\ Len(imported) = 0
    BY DEF Init
  <1>2. LogTyped
    BY <1>1, EmptySeq, BridgeAssumption DEF Init, LogTyped, Logged
  <1>3. WireTyped
    BY EmptySeq DEF Init, WireTyped
  <1>4. ClientTyped
    <2>1. Blank \in Notes /\ NoCall \in MaybeCall
      BY BridgeAssumption DEF MaybeCall, Notes
    <2>2. state \in [setup : MaybeCall, note : Notes]
      BY <2>1 DEF Init
    <2> QED
      BY <2>2 DEF Init, ClientTyped
  <1>5. OutcomeTyped
    BY EmptySeq DEF Init, OutcomeTyped
  <1>6. CountsTyped
    <2>1. moves \in 0..MaxMoves /\ faults \in 0..MaxFaults
      BY BridgeAssumption DEF Init
    <2>2. moved \in BOOLEAN
      BY DEF Init
    <2> QED
      BY <2>1, <2>2 DEF CountsTyped
  <1> QED
    BY <1>1, <1>2, <1>3, <1>4, <1>5, <1>6 DEF TypeInv, Typed, EntersLogged

\* What is sent keeps to the log as it is then.
LEMMA SentTyped ==
  ASSUME TypeInv, NEW ms \in Seq(Message), Tell(ms), Len(log') \in Nat, Len(log) <= Len(log'),
         \A k \in 1..Len(ms) : ms[k].type = "ENTEREVENT" => ms[k].contact \in 1..Len(log')
  PROVE  toBridge' \in Seq(Message) /\ EntersLogged'
  <1>1. /\ toBridge' \in Seq(Message)
        /\ Len(toBridge') = IF open THEN Len(toBridge) + Len(ms) ELSE Len(toBridge)
        /\ \A i \in 1..Len(toBridge) : toBridge'[i] = toBridge[i]
        /\ \A i \in 1..Len(toBridge') : i > Len(toBridge) =>
             i - Len(toBridge) \in 1..Len(ms) /\ toBridge'[i] = ms[i - Len(toBridge)]
        /\ Len(toBridge) \in Nat /\ Len(ms) \in Nat
    BY Sent DEF TypeInv, Typed, WireTyped
  <1>2. Len(log) \in Nat
    BY LogFacts DEF TypeInv
  <1>3. ASSUME NEW i \in 1..Len(toBridge'), toBridge'[i].type = "ENTEREVENT"
        PROVE  toBridge'[i].contact \in 1..Len(log')
    <2>1. CASE i <= Len(toBridge)
      <3>1. i \in 1..Len(toBridge)
        BY <1>1, <2>1
      <3>2. toBridge[i].type = "ENTEREVENT" => toBridge[i].contact \in 1..Len(log)
        BY <3>1 DEF TypeInv, EntersLogged, Entered, Received
      <3> QED
        BY <1>1, <1>2, <1>3, <3>1, <3>2
    <2>2. CASE i > Len(toBridge)
      BY <1>1, <1>3, <2>2
    <2> QED
      BY <1>1, <2>1, <2>2
  <1> QED
    BY <1>1, <1>3 DEF EntersLogged, Entered, Received

\* What is left to read was there before.
LEMMA ReadTyped ==
  ASSUME TypeInv, NEW type, Receive(type), log' = log
  PROVE  toBridge' \in Seq(Message) /\ EntersLogged'
  <1>1. /\ toBridge' \in Seq(Message)
        /\ Len(toBridge') = Len(toBridge) - 1 /\ Len(toBridge) \in Nat
        /\ \A i \in 1..Len(toBridge') : toBridge'[i] = toBridge[i + 1]
    BY Shifted DEF TypeInv, Typed, WireTyped
  <1>2. ASSUME NEW i \in 1..Len(toBridge') PROVE i + 1 \in 1..Len(toBridge)
    BY <1>1, <1>2
  <1>3. \A i \in 1..Len(toBridge) :
          toBridge[i].type = "ENTEREVENT" => toBridge[i].contact \in 1..Len(log)
    BY DEF TypeInv, EntersLogged, Entered, Received
  <1> QED
    BY <1>1, <1>2, <1>3 DEF EntersLogged, Entered, Received

LEMMA TypeNoteTyped ==
  ASSUME TypeInv, TypeNote
  PROVE  TypeInv'
  <1>1. /\ Len(log) \in Nat /\ Len(log) < MaxContacts /\ box' = Len(log) + 1
        /\ UNCHANGED <<log, setup, amended, open, toAclog, pc, state, pending, imported,
                       skipped, lost, refused, moved, moves, faults>>
    BY LogFacts DEF TypeNote, TypeInv
  <1>2. box' \in Contact
    BY <1>1, BridgeAssumption DEF Contact
  <1>3. DEFINE ms == <<Update(box')>>
  <1>4. ms \in Seq(Message) /\ Len(ms) = 1 /\ ms[1] = Update(box') /\ Tell(ms)
    BY <1>2, Messages DEF TypeNote
  <1>5. \A k \in 1..Len(ms) : ms[k].type # "ENTEREVENT"
    BY <1>4 DEF Update
  <1>6. toBridge' \in Seq(Message) /\ EntersLogged'
    <2> HIDE DEF ms
    <2> QED
      BY <1>1, <1>4, <1>5, SentTyped
  <1> QED
    BY <1>1, <1>6 DEF TypeInv, Typed, LogTyped, WireTyped, ClientTyped, OutcomeTyped,
       CountsTyped, Logged, Held

LEMMA HeldGrows ==
  ASSUME Len(log) \in Nat, Len(log') \in Nat, Len(log) <= Len(log')
  PROVE  /\ Logged \subseteq Logged' /\ Held \subseteq Held'
         /\ Seq(Held) \subseteq Seq(Held')
  <1>1. Logged \subseteq Logged'
    BY DEF Logged
  <1>2. Held \subseteq Held'
    BY <1>1 DEF Held
  <1>3. ASSUME NEW s \in Seq(Held) PROVE s \in Seq(Held')
    BY <1>2, <1>3, SeqMonotonic
  <1> QED
    BY <1>1, <1>2, <1>3

LEMMA OneAndOne ==
  ASSUME NEW a, NEW b
  PROVE  <<a>> \o <<b>> = <<a, b>>
  <1> DEFINE s == <<a>> \o <<b>>
             t == <<a, b>>
  <1>1. <<a>> \in Seq({a, b}) /\ Len(<<a>>) = 1 /\ <<a>>[1] = a
    OBVIOUS
  <1>2. <<b>> \in Seq({a, b}) /\ Len(<<b>>) = 1 /\ <<b>>[1] = b
    OBVIOUS
  <1>3. /\ s \in Seq({a, b}) /\ Len(s) = 2
        /\ \A i \in 1..2 : s[i] = IF i <= 1 THEN <<a>>[i] ELSE <<b>>[i - 1]
    BY <1>1, <1>2, ConcatProperties
  <1>4. s[1] = a /\ s[2] = b
    BY <1>1, <1>2, <1>3
  <1>5. t \in Seq({a, b}) /\ Len(t) = 2 /\ t[1] = a /\ t[2] = b
    OBVIOUS
  <1>6. \A i \in 1..Len(s) : s[i] = t[i]
    BY <1>3, <1>4, <1>5
  <1> QED
    <2> HIDE DEF s, t
    <2>1. s = t
      BY <1>3, <1>5, <1>6, SeqEqual
    <2> QED
      BY <2>1 DEF s, t

LEMMA SaveContactTyped ==
  ASSUME TypeInv, NEW id \in Identity, SaveContact(id)
  PROVE  TypeInv'
  <1> DEFINE e == [mycall |-> id.mycall, operator |-> id.operator,
                   note |-> box, setup |-> setup]
             ms == <<Enter(Len(log) + 1)>> \o (IF box = Blank THEN <<>> ELSE <<Update(Blank)>>)
  <1>1. /\ Len(log) \in Nat /\ Len(log) < MaxContacts /\ setup \in MaybeCall
        /\ box' = Blank /\ log' = Append(log, e)
        /\ UNCHANGED <<setup, amended, open, toAclog, pc, state, pending, imported,
                       skipped, lost, refused, moved, moves, faults>>
    BY LogFacts DEF SaveContact, TypeInv
  <1>2. id.mycall \in MaybeCall /\ id.operator \in MaybeCall
    BY BridgeAssumption
  <1>3. Len(log) + 1 \in Contact /\ box \in Notes
    BY <1>1, BridgeAssumption DEF Contact, Notes, TypeInv, Typed, LogTyped
  <1>4. e \in Entry
    BY <1>1, <1>2, <1>3 DEF Entry
  <1>5. log' \in Seq(Entry) /\ Len(log') = Len(log) + 1
    <2> HIDE DEF e
    <2> QED
      BY <1>1, <1>4, AppendProperties DEF TypeInv, Typed, LogTyped
  <1>6. /\ ms \in Seq(Message)
        /\ \A k \in 1..Len(ms) : ms[k] = Enter(Len(log) + 1) \/ ms[k] = Update(Blank)
    <2>1. /\ Enter(Len(log) + 1) \in Message /\ Update(Blank) \in Message
      BY <1>3, Messages DEF Notes
    <2>2. CASE box = Blank
      <3>1. ms = <<Enter(Len(log) + 1)>>
        BY <2>2
      <3> QED
        BY <2>1, <3>1
    <2>3. CASE box # Blank
      <3>1. ms = <<Enter(Len(log) + 1)>> \o <<Update(Blank)>>
        BY <2>3
      <3>2. ms = <<Enter(Len(log) + 1), Update(Blank)>>
        BY <3>1, OneAndOne
      <3> QED
        BY <2>1, <3>2
    <2> QED
      BY <2>2, <2>3
  <1>7. Tell(ms)
    BY <1>5 DEF SaveContact
  <1>8. \A k \in 1..Len(ms) : ms[k].type = "ENTEREVENT" => ms[k].contact \in 1..Len(log')
    BY <1>1, <1>5, <1>6 DEF Enter, Update
  <1>9. toBridge' \in Seq(Message) /\ EntersLogged'
    <2> HIDE DEF ms
    <2> QED
      BY <1>1, <1>5, <1>6, <1>7, <1>8, SentTyped
  <1>10. Logged \subseteq Logged' /\ Held \subseteq Held' /\ Seq(Held) \subseteq Seq(Held')
    BY <1>1, <1>5, HeldGrows
  <1>11. LogTyped'
    <2> HIDE DEF e
    <2> QED
      BY <1>1, <1>5, <1>10, BridgeAssumption DEF TypeInv, Typed, LogTyped
  <1>12. ClientTyped' /\ OutcomeTyped'
    BY <1>1, <1>10 DEF TypeInv, Typed, ClientTyped, OutcomeTyped
  <1> QED
    BY <1>1, <1>9, <1>11, <1>12 DEF TypeInv, Typed, WireTyped, CountsTyped

LEMMA AnswerTyped ==
  ASSUME TypeInv, Answer
  PROVE  TypeInv'
  <1> DEFINE m == IF Head(toAclog) = "LIST" THEN ListReply(RecentContacts) ELSE Settings(setup)
             ms == <<m>>
  <1>1. /\ Len(log) \in Nat /\ setup \in MaybeCall
        /\ Tell(ms) /\ toAclog' = Tail(toAclog) /\ toAclog # <<>>
        /\ UNCHANGED <<log, box, setup, amended, moves, open, pc, state, pending,
                       imported, skipped, lost, refused, moved, faults>>
    BY LogFacts DEF Answer, TypeInv, aclog, outcome
  <1>2. RecentContacts \in SUBSET Contact
    BY DEF RecentContacts
  <1>3. m \in Message /\ m.type # "ENTEREVENT"
    BY <1>1, <1>2, Messages DEF ListReply, Settings
  <1>4. ms \in Seq(Message) /\ Len(ms) = 1 /\ ms[1] = m
    <2> HIDE DEF m
    <2> QED
      BY <1>3
  <1>5. toBridge' \in Seq(Message) /\ EntersLogged'
    <2>1. \A k \in 1..Len(ms) : ms[k].type # "ENTEREVENT"
      BY <1>3, <1>4
    <2> HIDE DEF ms, m
    <2> QED
      BY <1>1, <1>4, <2>1, SentTyped
  <1>6. toAclog' \in Seq({"LIST", "GETUSERSETTINGS"})
    BY <1>1, HeadTailProperties DEF TypeInv, Typed, WireTyped
  <1> QED
    BY <1>1, <1>5, <1>6 DEF TypeInv, Typed, LogTyped, WireTyped, ClientTyped, OutcomeTyped,
       CountsTyped, Logged, Held

LEMMA NoRecordAnswerTyped ==
  ASSUME TypeInv, AnswerWithoutRecord
  PROVE  TypeInv'
  <1>1. /\ Tell(<<NoRecords>>) /\ toAclog' = Tail(toAclog) /\ toAclog # <<>>
        /\ faults < MaxFaults /\ faults' = faults + 1
        /\ UNCHANGED <<log, box, setup, amended, moves, open, pc, state, pending,
                       imported, skipped, lost, refused, moved>>
    BY DEF AnswerWithoutRecord, aclog, outcome
  <1>2. Len(log) \in Nat
    BY LogFacts DEF TypeInv
  <1>3. toBridge' \in Seq(Message) /\ EntersLogged'
    <2>1. PICK m \in Message : m = NoRecords /\ m.type # "ENTEREVENT"
      BY Messages
    <2> DEFINE ms == <<m>>
    <2>2. ms \in Seq(Message) /\ Tell(ms) /\ \A k \in 1..Len(ms) : ms[k].type # "ENTEREVENT"
      BY <1>1, <2>1
    <2> HIDE DEF ms
    <2> QED
      BY <1>1, <1>2, <2>2, SentTyped
  <1>4. toAclog' \in Seq({"LIST", "GETUSERSETTINGS"})
    BY <1>1, HeadTailProperties DEF TypeInv, Typed, WireTyped
  <1>5. CountsTyped'
    BY <1>1, BridgeAssumption DEF TypeInv, Typed, CountsTyped
  <1> QED
    BY <1>1, <1>3, <1>4, <1>5 DEF TypeInv, Typed, LogTyped, WireTyped, ClientTyped,
       OutcomeTyped, Logged, Held

\* The other actions of ACLog, and the ends of a connection.
LEMMA QuietTyped ==
  ASSUME TypeInv,
         \/ \E c \in Contact : AmendContact(c)
         \/ \E call \in SetupCall : ChangeSetup(call)
         \/ HangUp
         \/ RequestFullRecord
  PROVE  TypeInv'
  <1>0. Len(log) \in Nat
    BY LogFacts DEF TypeInv
  <1>1. ASSUME NEW c \in Contact, AmendContact(c) PROVE TypeInv'
    BY <1>0, <1>1 DEF AmendContact, TypeInv, Typed, LogTyped, WireTyped, ClientTyped,
       OutcomeTyped, CountsTyped, Logged, Held, EntersLogged, Entered, Received, wire,
       outcome, Contact
  <1>2. ASSUME NEW call \in SetupCall, ChangeSetup(call) PROVE TypeInv'
    <2>1. moves' \in 0..MaxMoves
      BY <1>2, BridgeAssumption DEF ChangeSetup, TypeInv, Typed, CountsTyped
    <2> QED
      BY <1>2, <2>1 DEF ChangeSetup, TypeInv, Typed, LogTyped, WireTyped, ClientTyped,
         OutcomeTyped, CountsTyped, Logged, Held, EntersLogged, Entered, Received, wire, outcome
  <1>3. CASE HangUp
    <2>1. faults' \in 0..MaxFaults /\ toAclog' \in Seq({"LIST", "GETUSERSETTINGS"})
      BY <1>3, EmptySeq, BridgeAssumption DEF HangUp, TypeInv, Typed, CountsTyped
    <2> QED
      BY <1>3, <2>1 DEF HangUp, TypeInv, Typed, LogTyped, WireTyped, ClientTyped,
         OutcomeTyped, CountsTyped, Logged, Held, EntersLogged, Entered, Received, aclog, outcome
  <1>4. CASE RequestFullRecord
    <2>1. toAclog' \in Seq({"LIST", "GETUSERSETTINGS"})
      BY <1>4, AppendProperties DEF RequestFullRecord, TypeInv, Typed, WireTyped
    <2> QED
      BY <1>4, <2>1 DEF RequestFullRecord, TypeInv, Typed, LogTyped, WireTyped, ClientTyped,
         OutcomeTyped, CountsTyped, Logged, Held, EntersLogged, Entered, Received, aclog, outcome
  <1> QED
    BY <1>1, <1>2, <1>3, <1>4

LEMMA ConnectTyped ==
  ASSUME TypeInv, Connect
  PROVE  TypeInv'
  <1>1. WireTyped' /\ Len(toBridge') = 0
    BY EmptySeq DEF Connect, WireTyped, TypeInv, Typed
  <1>2. NoCall \in MaybeCall /\ Blank \in Notes
    BY DEF MaybeCall, Notes
  <1>3. state' \in [setup : MaybeCall, note : Notes]
    BY <1>2 DEF Connect
  <1>4. UNCHANGED <<aclog, outcome, faults>> /\ pending' = None /\ pc' = "read" /\ moved' = FALSE
    BY DEF Connect
  <1>5. ClientTyped'
    BY <1>3, <1>4 DEF ClientTyped
  <1>6. EntersLogged'
    BY <1>1 DEF EntersLogged
  <1>7. LogTyped' /\ OutcomeTyped' /\ CountsTyped'
    BY <1>4 DEF TypeInv, Typed, LogTyped, OutcomeTyped, CountsTyped, Logged, Held, aclog, outcome
  <1> QED
    BY <1>1, <1>5, <1>6, <1>7 DEF TypeInv, Typed

\* What a contact that is skipped leaves behind.
LEMMA SkipTyped ==
  ASSUME Typed, NEW why \in Reasons, skipped' = Skip(pending, why)
  PROVE  skipped' \subseteq Logged \X Reasons
  BY DEF Typed, ClientTyped, OutcomeTyped, Held, Skip

LEMMA ReadsTyped ==
  ASSUME TypeInv, ReadUpdate \/ ReadSettings \/ ReadLateAnswer
  PROVE  TypeInv'
  <1>1. PICK type \in {"UPDATERESPONSE", "GETUSERSETTINGSRESPONSE", "LISTRESPONSE"} :
          Receive(type) /\ log' = log
    BY DEF ReadUpdate, ReadSettings, ReadLateAnswer, aclog
  <1>2. toBridge' \in Seq(Message) /\ EntersLogged'
    BY <1>1, ReadTyped
  <1>3. Head(toBridge) \in Message /\ Head(toBridge).type = type /\ pc = "read"
    BY <1>1, Shifted DEF TypeInv, Typed, WireTyped
  <1>4. state' \in [setup : MaybeCall, note : Notes]
    <2>1. state \in [setup : MaybeCall, note : Notes]
      BY DEF TypeInv, Typed, ClientTyped
    <2>2. CASE ReadUpdate
      BY <2>1, <2>2, <1>3, MessageKinds, Shifted DEF ReadUpdate, Receive, Notes
    <2>3. CASE ReadSettings
      BY <2>1, <2>3, <1>3, MessageKinds, Shifted DEF ReadSettings, Receive
    <2>4. CASE ReadLateAnswer
      BY <2>1, <2>4 DEF ReadLateAnswer
    <2> QED
      BY <2>2, <2>3, <2>4
  <1>5. UNCHANGED <<aclog, open, toAclog, pc, pending, outcome, moved, faults>>
    BY DEF ReadUpdate, ReadSettings, ReadLateAnswer
  <1> QED
    BY <1>2, <1>4, <1>5 DEF TypeInv, Typed, LogTyped, WireTyped, ClientTyped, OutcomeTyped,
       CountsTyped, Logged, Held, aclog, outcome

LEMMA ReadNoRecordsTyped ==
  ASSUME TypeInv, ReadNoRecords
  PROVE  TypeInv'
  <1>1. /\ Receive("NORECORDS")
        /\ refused' = IF pending = None THEN refused ELSE refused \cup {pending.contact}
        /\ UNCHANGED <<aclog, open, toAclog, pc, state, pending, imported, skipped, lost,
                       moved, faults>>
    BY DEF ReadNoRecords
  <1>2. toBridge' \in Seq(Message) /\ EntersLogged'
    BY <1>1, ReadTyped DEF aclog
  <1>3. refused' \subseteq Logged
    BY <1>1 DEF TypeInv, Typed, ClientTyped, OutcomeTyped, Held
  <1> QED
    BY <1>1, <1>2, <1>3 DEF TypeInv, Typed, LogTyped, WireTyped, ClientTyped, OutcomeTyped,
       CountsTyped, Logged, Held, aclog

LEMMA ReadEnterEventTyped ==
  ASSUME TypeInv, ReadEnterEvent
  PROVE  TypeInv'
  <1>1. /\ Receive("ENTEREVENT") /\ pc' = "delay" /\ skipped' = Skip(pending, "overtaken")
        /\ pending' = [contact |-> Head(toBridge).contact,
                       note |-> OrElse(log[Head(toBridge).contact].note, state.note)]
        /\ UNCHANGED <<aclog, open, toAclog, state, imported, lost, refused, moved, faults>>
    BY DEF ReadEnterEvent
  <1>2. toBridge' \in Seq(Message) /\ EntersLogged'
    BY <1>1, ReadTyped DEF aclog
  <1>3. Head(toBridge).contact \in Logged
    BY <1>1, Shifted DEF TypeInv, Typed, WireTyped, EntersLogged, Entered, Received, Logged
  <1>4. log[Head(toBridge).contact].note \in Notes /\ state.note \in Notes
    BY <1>3, LogFacts DEF TypeInv, Typed, ClientTyped
  <1>5. pending' \in Held /\ pending' # None
    <2>1. pending'.contact \in Logged /\ pending'.contact # 0
      BY <1>1, <1>3 DEF Logged
    <2> QED
      BY <1>1, <1>3, <1>4, <2>1 DEF Held, OrElse, None
  <1>6. skipped' \subseteq Logged \X Reasons
    BY <1>1, SkipTyped DEF Reasons, TypeInv
  <1>7. ClientTyped'
    BY <1>1, <1>5 DEF TypeInv, Typed, ClientTyped, Logged, Held, aclog
  <1> QED
    BY <1>1, <1>2, <1>6, <1>7 DEF TypeInv, Typed, LogTyped, WireTyped, OutcomeTyped,
       CountsTyped, Logged, Held, aclog

LEMMA ReadFullRecordsTyped ==
  ASSUME TypeInv, ReadFullRecords
  PROVE  TypeInv'
  <1>1. /\ Receive("LISTRESPONSE") /\ pending # None
        /\ UNCHANGED <<aclog, open, toAclog, state, imported, lost, refused, moved, faults>>
    BY DEF ReadFullRecords
  <1>2. toBridge' \in Seq(Message) /\ EntersLogged'
    BY <1>1, ReadTyped DEF aclog
  <1>3. pending \in Held /\ pc = "read" /\ pending.contact \in Logged
    BY <1>1 DEF TypeInv, Typed, ClientTyped, Receive, Held
  <1>4. ClientTyped' /\ skipped' \subseteq Logged \X Reasons
    <2>1. CASE pending.contact \in Head(toBridge).contacts
      <3>1. /\ pc' = "ingest" /\ UNCHANGED skipped
            /\ pending' = [pending EXCEPT !.note = OrElse(log[pending.contact].note,
                                                          OrElse(@, state.note))]
        BY <2>1 DEF ReadFullRecords
      <3>2. log[pending.contact].note \in Notes /\ state.note \in Notes /\ pending.note \in Notes
        BY <1>3, LogFacts DEF TypeInv, Typed, ClientTyped, Held
      <3>3. pending' \in Held /\ pending' # None
        <4>1. pending' \in Held /\ pending'.contact = pending.contact
          BY <1>3, <3>1, <3>2 DEF Held, OrElse
        <4>2. pending'.contact # 0
          BY <1>3, <4>1 DEF Logged
        <4> QED
          BY <4>1, <4>2 DEF None
      <3> QED
        BY <1>1, <3>1, <3>3 DEF TypeInv, Typed, ClientTyped, OutcomeTyped, Held, Logged, aclog
    <2>2. CASE pending.contact \notin Head(toBridge).contacts
      <3>1. pending' = None /\ pc' = pc /\ skipped' = Skip(pending, "nomatch")
        BY <2>2 DEF ReadFullRecords
      <3>2. skipped' \subseteq Logged \X Reasons
        BY <3>1, SkipTyped DEF Reasons, TypeInv
      <3> QED
        BY <1>1, <1>3, <3>1, <3>2 DEF TypeInv, Typed, ClientTyped
    <2> QED
      BY <2>1, <2>2
  <1> QED
    BY <1>1, <1>2, <1>4 DEF TypeInv, Typed, LogTyped, WireTyped, OutcomeTyped,
       CountsTyped, Logged, Held, aclog

LEMMA ImportTyped ==
  ASSUME TypeInv, Import
  PROVE  TypeInv'
  <1>1. /\ pc = "ingest" /\ pc' = "read" /\ pending' = None
        /\ UNCHANGED <<aclog, wire, state, lost, refused, moved, faults>>
    BY DEF Import
  <1>2. pending \in Held
    BY <1>1 DEF TypeInv, Typed, ClientTyped
  <1>3. imported' \in Seq(Held)
    <2>1. Append(imported, pending) \in Seq(Held)
      BY <1>2, AppendProperties DEF TypeInv, Typed, OutcomeTyped
    <2>2. imported' = imported \/ imported' = Append(imported, pending)
      BY DEF Import
    <2> QED
      BY <2>1, <2>2 DEF TypeInv, Typed, OutcomeTyped
  <1>4. skipped' \subseteq Logged \X Reasons
    <2>1. \/ skipped' = skipped
          \/ \E why \in Reasons : skipped' = Skip(pending, why)
      BY DEF Import, Reasons
    <2> QED
      BY <2>1, SkipTyped DEF TypeInv, Typed, OutcomeTyped
  <1> QED
    BY <1>1, <1>3, <1>4 DEF TypeInv, Typed, LogTyped, WireTyped, ClientTyped, OutcomeTyped,
       CountsTyped, Logged, Held, EntersLogged, Entered, Received, aclog, wire

LEMMA EndTyped ==
  ASSUME TypeInv, ReadEndOfFile \/ Fail
  PROVE  TypeInv'
  <1>1. CASE ReadEndOfFile
    <2>1. skipped' \subseteq Logged \X Reasons
      BY <1>1, SkipTyped DEF ReadEndOfFile, Reasons, TypeInv
    <2> QED
      BY <1>1, <2>1 DEF ReadEndOfFile, TypeInv, Typed, LogTyped, WireTyped, ClientTyped,
         OutcomeTyped, CountsTyped, Logged, Held, EntersLogged, Entered, Received, aclog, wire
  <1>2. CASE Fail
    <2>1. WireTyped' /\ Len(toBridge') = 0
      BY <1>2, EmptySeq DEF Fail, WireTyped
    <2>2. faults' \in 0..MaxFaults
      BY <1>2, BridgeAssumption DEF Fail, TypeInv, Typed, CountsTyped
    <2>3. lost' \subseteq Logged
      BY <1>2 DEF Fail, TypeInv, Typed, ClientTyped, OutcomeTyped, Held
    <2>4. ClientTyped'
      BY <1>2 DEF Fail, TypeInv, Typed, ClientTyped, aclog
    <2> QED
      BY <1>2, <2>1, <2>2, <2>3, <2>4 DEF Fail, TypeInv, Typed, LogTyped, OutcomeTyped,
         CountsTyped, Logged, Held, EntersLogged, aclog
  <1> QED
    BY <1>1, <1>2

LEMMA TypeStep == TypeInv /\ [Next]_vars => TypeInv'
  <1> SUFFICES ASSUME TypeInv, [Next]_vars PROVE TypeInv'
    OBVIOUS
  <1>1. CASE UNCHANGED vars
    BY <1>1 DEF vars, TypeInv, Typed, LogTyped, WireTyped, ClientTyped, OutcomeTyped,
       CountsTyped, Logged, Held, EntersLogged, Entered, Received
  <1>2. CASE Run
    BY <1>2, ConnectTyped, ReadsTyped, ReadNoRecordsTyped, ReadEnterEventTyped,
       ReadFullRecordsTyped, QuietTyped, ImportTyped, EndTyped DEF Run, ReadMessage
  <1>3. CASE UseAclog
    BY <1>3, TypeNoteTyped, SaveContactTyped, QuietTyped DEF UseAclog
  <1>4. CASE Fail \/ Answer \/ AnswerWithoutRecord \/ HangUp
    BY <1>4, EndTyped, AnswerTyped, NoRecordAnswerTyped, QuietTyped
  <1> QED
    BY <1>1, <1>2, <1>3, <1>4 DEF Next

\* The client always has a contact where its next step needs one, and what it
\* has imported, skipped or lost was in ACLog's log.
THEOREM TypeCorrect == Spec => []TypeOK
  <1>1. TypeInv => TypeOK
    BY TypedIsTypeOK DEF TypeInv
  <1> QED
    BY InitTyped, TypeStep, <1>1, PTL DEF Spec

-----------------------------------------------------------------------------
(***************************************************************************)
(* OneOutcome.  A connection announces contacts in the order they were     *)
(* saved, so what is still to be read is newer than the pending contact,   *)
(* and the pending contact newer than every one that is settled.           *)
(***************************************************************************)
Settled == Imported \cup Skipped \cup lost
Before(c) == \A i \in 1..Len(toBridge) : Entered(i) => c < Received(i).contact

EntersRise == \A i, j \in 1..Len(toBridge) :
  i < j /\ Entered(i) /\ Entered(j) => Received(i).contact < Received(j).contact
SettledBefore == \A c \in Settled : Before(c)
PendingBefore == pending # None =>
  Before(pending.contact) /\ \A c \in Settled : c < pending.contact
Apart ==
  /\ Imported \cap (Skipped \cup lost) = {} /\ Skipped \cap lost = {}
  /\ \A s, t \in skipped : s[1] = t[1] => s = t
  /\ \A i, j \in DOMAIN imported : i < j => imported[i].contact < imported[j].contact

OrderInv == EntersRise /\ SettledBefore /\ PendingBefore /\ Apart

\* What is announced after a step is new, or was announced before it.
Kept == \A i \in 1..Len(toBridge') : Entered(i)' =>
  \/ Received(i)'.contact > Len(log)
  \/ \E j \in 1..Len(toBridge) : Entered(j) /\ Received(j).contact = Received(i)'.contact

LEMMA SettledFacts ==
  ASSUME Typed
  PROVE  /\ Len(log) \in Nat /\ Settled \subseteq Logged /\ Settled \subseteq Nat
         /\ pending # None => pending \in Held /\ pending.contact \in Logged
         /\ imported \in Seq(Held) /\ Len(imported) \in Nat
         /\ DOMAIN imported = 1..Len(imported)
         /\ \A i \in 1..Len(imported) : imported[i].contact \in Nat
  <1>1. Len(log) \in Nat
    BY LogFacts
  <1>2. imported \in Seq(Held) /\ Len(imported) \in Nat /\ DOMAIN imported = 1..Len(imported)
    BY DEF Typed, OutcomeTyped
  <1>3. \A i \in 1..Len(imported) : imported[i] \in Held /\ imported[i].contact \in Logged
    <2>1. \A i \in 1..Len(imported) : imported[i] \in Held
      BY <1>2, ElementOfSeq
    <2> QED
      BY <2>1 DEF Held
  <1>4. Skipped \subseteq Logged
    BY DEF Typed, OutcomeTyped, Skipped
  <1>5. Logged \subseteq Nat
    BY <1>1 DEF Logged
  <1>6. Settled \subseteq Logged
    BY <1>2, <1>3, <1>4 DEF Settled, Imported, Typed, OutcomeTyped
  <1>7. pending # None => pending \in Held /\ pending.contact \in Logged
    BY DEF Typed, ClientTyped, Held
  <1> QED
    BY <1>1, <1>2, <1>3, <1>5, <1>6, <1>7

LEMMA SentOrdered ==
  ASSUME TypeInv, EntersRise, NEW ms \in Seq(Message), Tell(ms), Len(ms) <= 2,
         \A k \in 1..Len(ms) :
           ms[k].type = "ENTEREVENT" => k = 1 /\ ms[k].contact = Len(log) + 1
  PROVE  EntersRise' /\ Kept
  <1>1. /\ Len(toBridge') = IF open THEN Len(toBridge) + Len(ms) ELSE Len(toBridge)
        /\ \A i \in 1..Len(toBridge) : toBridge'[i] = toBridge[i]
        /\ \A i \in 1..Len(toBridge') : i > Len(toBridge) =>
             i - Len(toBridge) \in 1..Len(ms) /\ toBridge'[i] = ms[i - Len(toBridge)]
        /\ Len(toBridge) \in Nat /\ Len(ms) \in Nat
    BY Sent DEF TypeInv, Typed, WireTyped
  <1>2. Len(log) \in Nat
    BY LogFacts DEF TypeInv
  <1>3. ASSUME NEW i \in 1..Len(toBridge'), toBridge'[i].type = "ENTEREVENT"
        PROVE  \/ /\ i \in 1..Len(toBridge) /\ toBridge'[i] = toBridge[i]
                  /\ toBridge[i].contact \in 1..Len(log)
               \/ i = Len(toBridge) + 1 /\ toBridge'[i].contact = Len(log) + 1
    <2>1. CASE i <= Len(toBridge)
      BY <1>1, <1>3, <2>1 DEF TypeInv, EntersLogged, Entered, Received
    <2>2. CASE i > Len(toBridge)
      BY <1>1, <1>3, <2>2
    <2> QED
      BY <1>1, <2>1, <2>2
  <1>4. Kept
    BY <1>2, <1>3 DEF Kept, Entered, Received
  <1>5. EntersRise'
    <2>1. SUFFICES ASSUME NEW i \in 1..Len(toBridge'), NEW j \in 1..Len(toBridge'), i < j,
                          toBridge'[i].type = "ENTEREVENT", toBridge'[j].type = "ENTEREVENT"
                   PROVE  toBridge'[i].contact < toBridge'[j].contact
      BY DEF EntersRise, Entered, Received
    <2>2. i \in 1..Len(toBridge) /\ toBridge'[i] = toBridge[i] /\ toBridge[i].contact \in 1..Len(log)
      BY <1>1, <1>3, <2>1
    <2> QED
      BY <1>2, <1>3, <2>1, <2>2 DEF EntersRise, Entered, Received
  <1> QED
    BY <1>4, <1>5

LEMMA ReadOrdered ==
  ASSUME TypeInv, EntersRise, NEW type, Receive(type)
  PROVE  /\ EntersRise' /\ Kept
         /\ type = "ENTEREVENT" =>
              /\ Head(toBridge).contact \in Logged
              /\ \A i \in 1..Len(toBridge') :
                   Entered(i)' => Head(toBridge).contact < Received(i)'.contact
              /\ \A c : Before(c) => c < Head(toBridge).contact
  <1>1. /\ Len(toBridge') = Len(toBridge) - 1 /\ Len(toBridge) \in Nat \ {0}
        /\ \A i \in 1..Len(toBridge') : toBridge'[i] = toBridge[i + 1]
        /\ Head(toBridge) = toBridge[1] /\ Head(toBridge).type = type
    BY Shifted DEF TypeInv, Typed, WireTyped
  <1>2. ASSUME NEW i \in 1..Len(toBridge') PROVE i + 1 \in 1..Len(toBridge) /\ 1 < i + 1
    BY <1>1, <1>2
  <1>3. EntersRise'
    <2>1. SUFFICES ASSUME NEW i \in 1..Len(toBridge'), NEW j \in 1..Len(toBridge'), i < j,
                          toBridge'[i].type = "ENTEREVENT", toBridge'[j].type = "ENTEREVENT"
                   PROVE  toBridge'[i].contact < toBridge'[j].contact
      BY DEF EntersRise, Entered, Received
    <2>2. i + 1 \in 1..Len(toBridge) /\ j + 1 \in 1..Len(toBridge) /\ i + 1 < j + 1
      BY <1>2, <2>1
    <2>3. toBridge'[i] = toBridge[i + 1] /\ toBridge'[j] = toBridge[j + 1]
      BY <1>1
    <2> QED
      BY <2>1, <2>2, <2>3 DEF EntersRise, Entered, Received
  <1>4. Kept
    BY <1>1, <1>2 DEF Kept, Entered, Received
  <1>5. ASSUME type = "ENTEREVENT"
        PROVE  /\ Head(toBridge).contact \in Logged
               /\ \A i \in 1..Len(toBridge') :
                    Entered(i)' => Head(toBridge).contact < Received(i)'.contact
               /\ \A c : Before(c) => c < Head(toBridge).contact
    <2>1. 1 \in 1..Len(toBridge) /\ Entered(1)
      BY <1>1, <1>5 DEF Entered, Received
    <2>2. Head(toBridge).contact \in Logged
      BY <1>1, <2>1 DEF TypeInv, EntersLogged, Received, Logged
    <2>3. \A i \in 1..Len(toBridge') :
            Entered(i)' => Head(toBridge).contact < Received(i)'.contact
      BY <1>1, <1>2, <2>1 DEF EntersRise, Entered, Received
    <2>4. \A c : Before(c) => c < Head(toBridge).contact
      BY <1>1, <2>1 DEF Before, Received
    <2> QED
      BY <2>2, <2>3, <2>4
  <1> QED
    BY <1>3, <1>4, <1>5

\* What was older than everything announced still is.
LEMMA StillBefore ==
  ASSUME Kept, Len(log) \in Nat, NEW c \in Nat, c <= Len(log), Before(c),
         \A i \in 1..Len(toBridge') : Entered(i)' => Received(i)'.contact \in Nat
  PROVE  Before(c)'
  BY DEF Kept, Before

\* Steps that settle nothing and leave the pending contact the same.
LEMMA NothingSettled ==
  ASSUME TypeInv, TypeInv', OrderInv, EntersRise', Kept, UNCHANGED <<imported, skipped, lost>>,
         \/ pending' = pending
         \/ pending # None /\ pending' # None /\ pending'.contact = pending.contact
  PROVE  OrderInv'
  <1>1. UNCHANGED <<imported, skipped, lost>> /\ Settled' = Settled /\ Apart'
    BY DEF Settled, Imported, Skipped, OrderInv, Apart
  <1>2. /\ Len(log) \in Nat /\ Settled \subseteq Logged /\ Settled \subseteq Nat
        /\ pending # None => pending.contact \in Logged
    BY SettledFacts DEF TypeInv
  <1>3. \A i \in 1..Len(toBridge') : Entered(i)' => Received(i)'.contact \in Nat
    BY DEF TypeInv, EntersLogged
  <1>4. \A c \in Logged : Before(c) => Before(c)'
    BY <1>2, <1>3, StillBefore DEF Logged
  <1>5. SettledBefore' /\ PendingBefore'
    BY <1>1, <1>2, <1>4 DEF OrderInv, SettledBefore, PendingBefore
  <1> QED
    BY <1>1, <1>5 DEF OrderInv

\* Steps that settle the pending contact, and leave the slot empty.
Settles ==
  \/ pending # None /\ imported' = Append(imported, pending) /\ UNCHANGED <<skipped, lost>>
  \/ (\E why \in Reasons : skipped' = Skip(pending, why)) /\ UNCHANGED <<imported, lost>>
  \/ /\ lost' = IF pending = None THEN lost ELSE lost \cup {pending.contact}
     /\ UNCHANGED <<imported, skipped>>

LEMMA SettledGrows ==
  ASSUME TypeInv, OrderInv, Settles
  PROVE  /\ Apart'
         /\ Settled' = IF pending = None THEN Settled ELSE Settled \cup {pending.contact}
  <1>1. /\ Len(log) \in Nat /\ Settled \subseteq Nat
        /\ pending # None => pending \in Held /\ pending.contact \in Nat
        /\ imported \in Seq(Held) /\ Len(imported) \in Nat
        /\ DOMAIN imported = 1..Len(imported)
        /\ \A i \in 1..Len(imported) : imported[i].contact \in Nat
    BY SettledFacts DEF TypeInv, Logged
  <1>2. Apart /\ (pending # None => pending.contact \notin Settled)
    BY <1>1 DEF OrderInv, PendingBefore
  <1>3. CASE pending = None
    BY <1>2, <1>3 DEF Settles, Skip, Apart, Settled, Imported, Skipped
  <1>4. CASE pending # None /\ imported' = Append(imported, pending) /\ UNCHANGED <<skipped, lost>>
    <2>1. /\ imported' \in Seq(Held) /\ Len(imported') = Len(imported) + 1
          /\ \A i \in 1..Len(imported) : imported'[i] = imported[i]
          /\ imported'[Len(imported) + 1] = pending
      <3>1. imported' = Append(imported, pending) /\ imported \in Seq(Held) /\ pending \in Held
        BY <1>1, <1>4
      <3> QED
        BY <3>1, AppendProperties
    <2>2. DOMAIN imported' = 1..(Len(imported) + 1)
      BY <2>1
    <2>3. Imported' = Imported \cup {pending.contact}
      BY <1>1, <2>1, <2>2 DEF Imported
    <2>4. \A i \in 1..Len(imported) : imported[i].contact < pending.contact
      <3>1. \A i \in 1..Len(imported) : imported[i].contact \in Settled
        BY <1>1 DEF Settled, Imported
      <3> QED
        BY <1>4, <3>1 DEF OrderInv, PendingBefore
    <2>5. \A i, j \in DOMAIN imported' :
            i < j => imported'[i].contact < imported'[j].contact
      BY <1>1, <1>2, <2>1, <2>2, <2>4 DEF Apart
    <2> QED
      BY <1>2, <1>4, <2>3, <2>5 DEF Apart, Settled, Skipped
  <1>5. CASE pending # None /\ (\E why \in Reasons : skipped' = Skip(pending, why))
               /\ UNCHANGED <<imported, lost>>
    <2>1. PICK why \in Reasons : skipped' = skipped \cup {<<pending.contact, why>>}
      BY <1>5 DEF Skip
    <2>2. Skipped' = Skipped \cup {pending.contact} /\ Imported' = Imported
      <3>1. <<pending.contact, why>>[1] = pending.contact
        OBVIOUS
      <3>2. Skipped' = Skipped \cup {pending.contact}
        BY <2>1, <3>1 DEF Skipped
      <3> QED
        BY <1>5, <3>2 DEF Imported
    <2>3. \A s \in skipped : s[1] # pending.contact
      BY <1>2, <1>5 DEF Settled, Skipped
    <2>4. \A s, t \in skipped' : s[1] = t[1] => s = t
      BY <1>2, <2>1, <2>3 DEF Apart
    <2> QED
      BY <1>2, <1>5, <2>2, <2>4 DEF Apart, Settled
  <1>6. CASE pending # None /\ lost' = lost \cup {pending.contact} /\ UNCHANGED <<imported, skipped>>
    BY <1>2, <1>6 DEF Apart, Settled, Imported, Skipped
  <1> QED
    BY <1>3, <1>4, <1>5, <1>6 DEF Settles

LEMMA SlotEmptied ==
  ASSUME TypeInv, TypeInv', OrderInv, EntersRise', Kept, Settles, pending' = None
  PROVE  OrderInv'
  <1>1. Apart' /\ Settled' = IF pending = None THEN Settled ELSE Settled \cup {pending.contact}
    BY SettledGrows
  <1>2. /\ Len(log) \in Nat /\ Settled \subseteq Logged
        /\ pending # None => pending.contact \in Logged
    BY SettledFacts DEF TypeInv
  <1>3. \A i \in 1..Len(toBridge') : Entered(i)' => Received(i)'.contact \in Nat
    BY DEF TypeInv, EntersLogged
  <1>4. \A c \in Logged : Before(c) => Before(c)'
    BY <1>2, <1>3, StillBefore DEF Logged
  <1>5. SettledBefore'
    BY <1>1, <1>2, <1>4 DEF OrderInv, SettledBefore, PendingBefore
  <1> QED
    BY <1>1, <1>5 DEF OrderInv, PendingBefore

LEMMA NextAnnounced ==
  ASSUME TypeInv, TypeInv', OrderInv, ReadEnterEvent
  PROVE  OrderInv'
  <1>1. /\ Receive("ENTEREVENT") /\ skipped' = Skip(pending, "overtaken")
        /\ pending'.contact = Head(toBridge).contact
        /\ UNCHANGED <<imported, lost>>
    BY DEF ReadEnterEvent
  <1>2. /\ EntersRise' /\ Kept /\ Head(toBridge).contact \in Logged
        /\ \A i \in 1..Len(toBridge') : Entered(i)' => Head(toBridge).contact < Received(i)'.contact
        /\ \A c : Before(c) => c < Head(toBridge).contact
    BY <1>1, ReadOrdered DEF OrderInv
  <1>3. Apart' /\ Settled' = IF pending = None THEN Settled ELSE Settled \cup {pending.contact}
    BY <1>1, SettledGrows DEF Settles, Reasons
  <1>4. /\ Len(log) \in Nat /\ Settled \subseteq Logged
        /\ pending # None => pending.contact \in Logged
    BY SettledFacts DEF TypeInv
  <1>5. \A i \in 1..Len(toBridge') : Entered(i)' => Received(i)'.contact \in Nat
    BY DEF TypeInv, EntersLogged
  <1>6. \A c \in Logged : Before(c) => Before(c)'
    BY <1>2, <1>4, <1>5, StillBefore DEF Logged
  <1>7. \A c \in Settled' : Before(c) /\ c \in Logged
    BY <1>3, <1>4 DEF OrderInv, SettledBefore, PendingBefore
  <1>8. SettledBefore'
    BY <1>6, <1>7 DEF SettledBefore
  <1>9. PendingBefore'
    <2>1. Before(pending.contact)'
      BY <1>1, <1>2 DEF Before
    <2> QED
      BY <1>1, <1>2, <1>7, <2>1 DEF PendingBefore
  <1> QED
    BY <1>2, <1>3, <1>8, <1>9 DEF OrderInv

\* Steps that leave the stream alone, or end it.
LEMMA StreamKept ==
  ASSUME TypeInv, EntersRise, toBridge' = toBridge \/ toBridge' = <<>>
  PROVE  EntersRise' /\ Kept
  <1>1. CASE toBridge' = toBridge
    BY <1>1 DEF EntersRise, Kept, Entered, Received
  <1>2. CASE toBridge' = <<>>
    <2>1. Len(toBridge') = 0
      BY <1>2, EmptySeq
    <2> QED
      BY <2>1 DEF EntersRise, Kept
  <1> QED
    BY <1>1, <1>2

LEMMA AclogOrdered ==
  ASSUME TypeInv, TypeInv', OrderInv, UseAclog \/ Answer \/ AnswerWithoutRecord \/ HangUp
  PROVE  OrderInv'
  <1>1. UNCHANGED <<pending, imported, skipped, lost>>
    BY DEF UseAclog, TypeNote, SaveContact, AmendContact, ChangeSetup, Answer,
       AnswerWithoutRecord, HangUp, outcome
  <1>2. Len(log) \in Nat /\ Len(log) + 1 \in Nat /\ EntersRise
    BY LogFacts DEF TypeInv, OrderInv
  <1>3. CASE TypeNote
    <2>1. Len(log) + 1 \in Contact
      BY <1>2, <1>3, BridgeAssumption DEF TypeNote, Contact
    <2>2. DEFINE ms == <<Update(box')>>
    <2>3. ms \in Seq(Message) /\ Len(ms) = 1 /\ ms[1].type # "ENTEREVENT" /\ Tell(ms)
      BY <1>3, <2>1, Messages DEF TypeNote, Update
    <2> HIDE DEF ms
    <2>4. EntersRise' /\ Kept
      <3>1. Len(ms) <= 2 /\ \A k \in 1..Len(ms) : ms[k].type # "ENTEREVENT"
        BY <2>3
      <3> QED
        BY <1>2, <2>3, <3>1, SentOrdered
    <2> QED
      BY <1>1, <2>4, NothingSettled
  <1>4. ASSUME NEW id \in Identity, SaveContact(id) PROVE OrderInv'
    <2> DEFINE ms == <<Enter(Len(log) + 1)>> \o (IF box = Blank THEN <<>> ELSE <<Update(Blank)>>)
    <2>1. Len(log) + 1 \in Contact /\ Len(log') = Len(log) + 1
      <3>1. log \in Seq(Entry) /\ Len(log) < MaxContacts
        BY <1>4 DEF SaveContact, TypeInv, Typed, LogTyped
      <3> QED
        BY <1>2, <1>4, <3>1, BridgeAssumption DEF SaveContact, Contact
    <2>2. Enter(Len(log) + 1) \in Message /\ Update(Blank) \in Message
      BY <2>1, Messages
    <2>3. ms = <<Enter(Len(log) + 1)>> \/ ms = <<Enter(Len(log) + 1), Update(Blank)>>
      <3>1. CASE box = Blank
        BY <3>1
      <3>2. CASE box # Blank
        <4>1. ms = <<Enter(Len(log) + 1)>> \o <<Update(Blank)>>
          BY <3>2
        <4> QED
          BY <4>1, OneAndOne
      <3> QED
        BY <3>1, <3>2
    <2>4. ms \in Seq(Message) /\ Len(ms) <= 2 /\ ms[1] = Enter(Len(log) + 1)
          /\ \A k \in 1..Len(ms) : k = 1 \/ ms[k] = Update(Blank)
      BY <2>2, <2>3
    <2>5. Tell(ms)
      BY <1>4, <2>1 DEF SaveContact
    <2>6. \A k \in 1..Len(ms) :
            ms[k].type = "ENTEREVENT" => k = 1 /\ ms[k].contact = Len(log) + 1
      BY <2>4 DEF Enter, Update
    <2> HIDE DEF ms
    <2>7. EntersRise' /\ Kept
      BY <1>2, <2>4, <2>5, <2>6, SentOrdered
    <2> QED
      BY <1>1, <2>7, NothingSettled
  <1>5. CASE Answer
    <2> DEFINE m == IF Head(toAclog) = "LIST" THEN ListReply(RecentContacts) ELSE Settings(setup)
               ms == <<m>>
    <2>1. RecentContacts \in SUBSET Contact /\ setup \in MaybeCall
      BY LogFacts DEF RecentContacts, TypeInv
    <2>2. m \in Message /\ m.type # "ENTEREVENT"
      BY <2>1, Messages DEF ListReply, Settings
    <2>3. Tell(ms)
      BY <1>5 DEF Answer
    <2> HIDE DEF m
    <2>4. ms \in Seq(Message) /\ Len(ms) = 1 /\ ms[1].type # "ENTEREVENT"
      BY <2>2
    <2> HIDE DEF ms
    <2>5. EntersRise' /\ Kept
      <3>1. Len(ms) <= 2 /\ \A k \in 1..Len(ms) : ms[k].type # "ENTEREVENT"
        BY <2>4
      <3> QED
        BY <1>2, <2>3, <2>4, <3>1, SentOrdered
    <2> QED
      BY <1>1, <2>5, NothingSettled
  <1>6. CASE \/ \E c \in Contact : AmendContact(c)
             \/ \E call \in SetupCall : ChangeSetup(call)
             \/ HangUp
    <2>1. toBridge' = toBridge
      BY <1>6 DEF AmendContact, ChangeSetup, HangUp, wire
    <2> QED
      BY <1>1, <1>2, <2>1, StreamKept, NothingSettled
  <1>7. CASE AnswerWithoutRecord
    <2>1. PICK m \in Message : Tell(<<m>>) /\ m.type # "ENTEREVENT"
      BY <1>7, Messages DEF AnswerWithoutRecord
    <2> DEFINE ms == <<m>>
    <2>2. /\ ms \in Seq(Message) /\ Tell(ms) /\ Len(ms) <= 2
          /\ \A k \in 1..Len(ms) : ms[k].type # "ENTEREVENT"
      BY <2>1
    <2> HIDE DEF ms
    <2>3. EntersRise' /\ Kept
      BY <1>2, <2>2, SentOrdered
    <2> QED
      BY <1>1, <2>3, NothingSettled
  <1> QED
    BY <1>3, <1>4, <1>5, <1>6, <1>7 DEF UseAclog

LEMMA ClientOrdered ==
  ASSUME TypeInv, TypeInv', OrderInv, Run \/ Fail
  PROVE  OrderInv'
  <1>1. EntersRise
    BY DEF OrderInv
  <1>2. CASE Connect \/ RequestFullRecord
    <2>1. UNCHANGED <<imported, skipped, lost>> /\ pending' = pending
          /\ (toBridge' = toBridge \/ toBridge' = <<>>)
      BY <1>2 DEF Connect, RequestFullRecord, TypeInv, Typed, ClientTyped, outcome
    <2> QED
      BY <1>1, <2>1, StreamKept, NothingSettled
  <1>3. CASE ReadUpdate \/ ReadSettings \/ ReadLateAnswer \/ ReadNoRecords
    <2>1. UNCHANGED <<imported, skipped, lost>> /\ pending' = pending /\ \E type : Receive(type)
      BY <1>3 DEF ReadUpdate, ReadSettings, ReadLateAnswer, ReadNoRecords, outcome
    <2> QED
      BY <1>1, <2>1, ReadOrdered, NothingSettled
  <1>4. CASE ReadEnterEvent
    BY <1>4, NextAnnounced
  <1>5. CASE ReadFullRecords
    <2>1. Receive("LISTRESPONSE") /\ pending # None /\ UNCHANGED <<imported, lost>>
      BY <1>5 DEF ReadFullRecords
    <2>2. EntersRise' /\ Kept
      BY <1>1, <2>1, ReadOrdered
    <2>3. CASE pending.contact \in Head(toBridge).contacts
      <3>1. pc' = "ingest" /\ skipped' = skipped
            /\ pending' = [pending EXCEPT !.note = OrElse(log[pending.contact].note,
                                                          OrElse(@, state.note))]
        BY <1>5, <2>3 DEF ReadFullRecords
      <3>2. pending' # None
        BY <3>1 DEF TypeInv, Typed, ClientTyped
      <3>3. pending'.contact = pending.contact
        <4>1. pending \in Held
          BY <2>1, SettledFacts DEF TypeInv
        <4> QED
          BY <3>1, <4>1 DEF Held
      <3>4. UNCHANGED <<imported, skipped, lost>>
        BY <2>1, <3>1
      <3> QED
        BY <2>1, <2>2, <3>2, <3>3, <3>4, NothingSettled
    <2>4. CASE pending.contact \notin Head(toBridge).contacts
      <3>1. pending' = None /\ skipped' = Skip(pending, "nomatch")
        BY <1>5, <2>4 DEF ReadFullRecords
      <3> QED
        BY <2>1, <2>2, <3>1, SlotEmptied DEF Settles, Reasons
    <2> QED
      BY <2>3, <2>4
  <1>6. CASE Import \/ ReadEndOfFile \/ Fail
    <2>1. pending' = None /\ (toBridge' = toBridge \/ toBridge' = <<>>)
      BY <1>6 DEF Import, ReadEndOfFile, Fail, wire
    <2>2. Settles
      <3>1. CASE Import
        <4>1. pending # None
          BY <3>1 DEF Import, TypeInv, Typed, ClientTyped
        <4> QED
          BY <3>1, <4>1 DEF Import, Settles, Reasons
      <3>2. CASE ReadEndOfFile
        BY <3>2 DEF ReadEndOfFile, Settles, Reasons
      <3>3. CASE Fail
        BY <3>3 DEF Fail, Settles
      <3> QED
        BY <1>6, <3>1, <3>2, <3>3
    <2> QED
      BY <1>1, <2>1, <2>2, StreamKept, SlotEmptied
  <1> QED
    BY <1>2, <1>3, <1>4, <1>5, <1>6 DEF Run, ReadMessage

LEMMA InitOrdered == Init => OrderInv
  <1> SUFFICES ASSUME Init PROVE OrderInv
    OBVIOUS
  <1>1. Len(toBridge) = 0 /\ DOMAIN imported = {} /\ skipped = {} /\ lost = {} /\ pending = None
    BY DEF Init
  <1>2. Settled = {}
    BY <1>1 DEF Settled, Imported, Skipped
  <1> QED
    BY <1>1, <1>2 DEF OrderInv, EntersRise, SettledBefore, PendingBefore, Apart, Imported, Skipped

LEMMA OrderStep == TypeInv /\ TypeInv' /\ OrderInv /\ [Next]_vars => OrderInv'
  <1> SUFFICES ASSUME TypeInv, TypeInv', OrderInv, [Next]_vars PROVE OrderInv'
    OBVIOUS
  <1>1. CASE UNCHANGED vars
    <2>1. toBridge' = toBridge /\ pending' = pending /\ UNCHANGED <<imported, skipped, lost>>
          /\ EntersRise
      BY <1>1 DEF vars, OrderInv
    <2> QED
      BY <2>1, StreamKept, NothingSettled
  <1> QED
    BY <1>1, AclogOrdered, ClientOrdered DEF Next

\* Each contact the client reads of is settled once, one way, and those that
\* are imported are imported in the order ACLog saved them.
THEOREM OutcomeIsOne == Spec => []OneOutcome
  <1>1. TypeInv /\ OrderInv => OneOutcome
    <2> SUFFICES ASSUME TypeInv, OrderInv PROVE OneOutcome
      OBVIOUS
    <2>1. Settled \subseteq Nat /\ (pending # None => pending.contact \notin Settled)
      BY SettledFacts DEF TypeInv, OrderInv, PendingBefore
    <2> QED
      BY <2>1 DEF OneOutcome, OrderInv, Apart, Settled
  <1> QED
    BY InitTyped, TypeStep, InitOrdered, OrderStep, <1>1, PTL DEF Spec

-----------------------------------------------------------------------------
(***************************************************************************)
(* SkippedForAReason.  Position 0 of the stream is the pending contact.    *)
(* An answer to LIST that is on its way holds the last contact awaited     *)
(* before it, unless that one was edited: ACLog had logged nothing newer,  *)
(* or it would have announced it in between.                               *)
(***************************************************************************)
Waits(j) == IF j = 0 THEN pending # None ELSE Entered(j)
Awaited(j) == IF j = 0 THEN pending.contact ELSE Received(j).contact
Overtaken(j, i) == \E k \in (j + 1)..(i - 1) : Entered(k)

AnswersHoldLatest == \A i \in 1..Len(toBridge) : Listed(i) =>
  \A j \in 0..(i - 1) : Waits(j) =>
    Awaited(j) \in Received(i).contacts \cup amended \/ Overtaken(j, i)
LatestIsAwaited == open => \A j \in 0..Len(toBridge) : Waits(j) =>
  Awaited(j) = Len(log) \/ Overtaken(j, Len(toBridge) + 1)

RecentInv == AnswersHoldLatest /\ LatestIsAwaited /\ SkippedForAReason

LEMMA SkippedLogged ==
  ASSUME TypeInv, NEW s \in skipped
  PROVE  s[1] \in Logged /\ s[1] \in Nat /\ Len(log) \in Nat
  <1>1. s \in Logged \X Reasons /\ Len(log) \in Nat
    BY LogFacts DEF TypeInv, Typed, OutcomeTyped
  <1> QED
    BY <1>1 DEF Logged

LEMMA AwaitedLogged ==
  ASSUME TypeInv, NEW j \in 0..Len(toBridge), Waits(j)
  PROVE  Awaited(j) \in Logged
  <1>1. Len(toBridge) \in Nat
    BY DEF TypeInv, Typed, WireTyped
  <1>2. CASE j = 0
    BY <1>2, SettledFacts DEF TypeInv, Waits, Awaited
  <1>3. CASE j # 0
    BY <1>1, <1>3 DEF Waits, Awaited, TypeInv, EntersLogged, Logged
  <1> QED
    BY <1>2, <1>3

\* Sending leaves what was sent before as it is.
LEMMA SentBefore ==
  ASSUME Len(toBridge) \in Nat, \A i \in 1..Len(toBridge) : toBridge'[i] = toBridge[i],
         pending' = pending
  PROVE  /\ \A j \in 0..Len(toBridge) : (Waits(j)' <=> Waits(j)) /\ Awaited(j)' = Awaited(j)
         /\ \A j \in 1..Len(toBridge) :
              /\ (Entered(j)' <=> Entered(j)) /\ (Listed(j)' <=> Listed(j))
              /\ Received(j)' = Received(j)
  <1>1. \A j \in 1..Len(toBridge) :
          /\ (Entered(j)' <=> Entered(j)) /\ (Listed(j)' <=> Listed(j))
          /\ Received(j)' = Received(j)
    BY DEF Entered, Listed, Received
  <1>2. \A j \in 0..Len(toBridge) : (Waits(j)' <=> Waits(j)) /\ Awaited(j)' = Awaited(j)
    <2>1. TAKE j \in 0..Len(toBridge)
    <2>2. CASE j = 0
      BY <2>2 DEF Waits, Awaited
    <2>3. CASE j # 0
      BY <1>1, <2>3 DEF Waits, Awaited
    <2> QED
      BY <2>2, <2>3
  <1> QED
    BY <1>1, <1>2

\* A message that announces nothing.
LEMMA ToldRecent ==
  ASSUME TypeInv, RecentInv, NEW m \in Message, Tell(<<m>>), pending' = pending,
         UNCHANGED <<log, amended, open, skipped>>, m.type # "ENTEREVENT",
         m.type = "LISTRESPONSE" => \A c \in Logged : c = Len(log) => c \in m.contacts \cup amended
  PROVE  RecentInv'
  <1> DEFINE ms == <<m>>
             n == Len(toBridge)
  <1>1. ms \in Seq(Message) /\ Len(ms) = 1 /\ ms[1] = m
    OBVIOUS
  <1>2. /\ n \in Nat /\ Len(toBridge') = (IF open THEN n + 1 ELSE n)
        /\ \A j \in 0..n : (Waits(j)' <=> Waits(j)) /\ Awaited(j)' = Awaited(j)
        /\ \A j \in 1..n :
             (Entered(j)' <=> Entered(j)) /\ (Listed(j)' <=> Listed(j)) /\ Received(j)' = Received(j)
        /\ \A i \in 1..Len(toBridge') : i > n => open /\ i = n + 1 /\ Received(i)' = m
    <2>1. /\ n \in Nat /\ Len(toBridge') = (IF open THEN n + Len(ms) ELSE n)
          /\ \A i \in 1..n : toBridge'[i] = toBridge[i]
          /\ \A i \in 1..Len(toBridge') : i > n =>
               open /\ i - n \in 1..Len(ms) /\ toBridge'[i] = ms[i - n]
      <3>1. Tell(ms)
        OBVIOUS
      <3> HIDE DEF ms
      <3> QED
        BY <1>1, <3>1, Sent DEF TypeInv, Typed, WireTyped
    <2>2. ASSUME NEW i \in 1..Len(toBridge'), i > n
          PROVE  open /\ i = n + 1 /\ Received(i)' = m
      <3>1. open /\ i - n \in 1..Len(ms) /\ toBridge'[i] = ms[i - n]
        BY <2>1, <2>2
      <3>2. i - n = 1
        BY <1>1, <3>1
      <3> QED
        BY <1>1, <2>1, <3>1, <3>2 DEF Received
    <2> QED
      BY <1>1, <2>1, <2>2, SentBefore
  <1>3. \A j \in 0..n : \A i \in 1..(n + 1) : Overtaken(j, i) => Overtaken(j, i)'
    BY <1>2 DEF Overtaken
  <1>4. AnswersHoldLatest'
    <2>1. SUFFICES ASSUME NEW i \in 1..Len(toBridge'), Listed(i)',
                          NEW j \in 0..(i - 1), Waits(j)'
                   PROVE  Awaited(j)' \in Received(i)'.contacts \cup amended \/ Overtaken(j, i)'
      BY DEF AnswersHoldLatest
    <2>2. CASE i <= n
      <3>1. i \in 1..n /\ j \in 0..n /\ Listed(i) /\ Waits(j)
        BY <1>2, <2>1, <2>2
      <3>2. Awaited(j) \in Received(i).contacts \cup amended \/ Overtaken(j, i)
        BY <2>1, <3>1 DEF RecentInv, AnswersHoldLatest
      <3>3. i \in 1..(n + 1) /\ Awaited(j)' = Awaited(j) /\ Received(i)' = Received(i)
        BY <1>2, <3>1
      <3> QED
        BY <1>3, <3>1, <3>2, <3>3
    <2>3. CASE i > n
      <3>1. open /\ i = n + 1 /\ Received(i)' = m /\ m.type = "LISTRESPONSE"
        <4>1. open /\ i = n + 1 /\ Received(i)' = m
          BY <1>2, <2>1, <2>3
        <4>2. Received(i)'.type = "LISTRESPONSE"
          BY <2>1 DEF Listed
        <4> QED
          BY <4>1, <4>2
      <3>2. j \in 0..n /\ Waits(j) /\ Awaited(j)' = Awaited(j) /\ Awaited(j) \in Logged
        BY <1>2, <2>1, <3>1, AwaitedLogged
      <3>3. Awaited(j) = Len(log) \/ Overtaken(j, n + 1)
        BY <3>1, <3>2 DEF RecentInv, LatestIsAwaited
      <3> QED
        BY <1>2, <1>3, <3>1, <3>2, <3>3
    <2> QED
      BY <1>2, <2>1, <2>2, <2>3
  <1>5. LatestIsAwaited'
    <2>1. SUFFICES ASSUME open', NEW j \in 0..Len(toBridge'), Waits(j)'
                   PROVE  Awaited(j)' = Len(log) \/ \E k \in (j + 1)..Len(toBridge') : Entered(k)'
      BY DEF LatestIsAwaited, Overtaken
    <2>2. j \in 0..n /\ Waits(j)
      <3>1. CASE j = n + 1
        <4>1. j \in 1..Len(toBridge') /\ Received(j)' = m /\ j # 0
          BY <1>2, <2>1, <3>1
        <4>2. Received(j)'.type = "ENTEREVENT"
          BY <2>1, <4>1 DEF Waits, Entered
        <4> QED
          BY <4>1, <4>2
      <3> QED
        BY <1>2, <2>1, <3>1
    <2>3. Awaited(j) = Len(log) \/ \E k \in (j + 1)..n : Entered(k)
      BY <1>2, <2>1, <2>2 DEF RecentInv, LatestIsAwaited, Overtaken
    <2> QED
      BY <1>2, <2>1, <2>2, <2>3
  <1> QED
    BY <1>4, <1>5 DEF RecentInv, SkippedForAReason

\* A contact that is saved becomes the latest one awaited.
LEMMA SavedRecent ==
  ASSUME TypeInv, RecentInv, NEW id \in Identity, SaveContact(id)
  PROVE  RecentInv'
  <1> DEFINE n == Len(toBridge)
             ms == <<Enter(Len(log) + 1)>> \o (IF box = Blank THEN <<>> ELSE <<Update(Blank)>>)
  <1>1. /\ Len(log) + 1 \in Contact /\ Len(log') = Len(log) + 1 /\ Len(log) \in Nat
        /\ UNCHANGED <<amended, open, pending, skipped>>
    <2>1. log \in Seq(Entry) /\ Len(log) < MaxContacts /\ Len(log) \in Nat
      BY LogFacts DEF SaveContact, TypeInv, Typed, LogTyped
    <2> QED
      BY <2>1, BridgeAssumption DEF SaveContact, Contact
  <1>2. /\ ms \in Seq(Message) /\ Len(ms) \in Nat \ {0} /\ ms[1] = Enter(Len(log) + 1)
        /\ \A k \in 1..Len(ms) : k = 1 \/ ms[k] = Update(Blank)
    <2>1. Enter(Len(log) + 1) \in Message /\ Update(Blank) \in Message
      BY <1>1, Messages
    <2>2. CASE box = Blank
      <3>1. ms = <<Enter(Len(log) + 1)>>
        BY <2>2
      <3> QED
        BY <2>1, <3>1
    <2>3. CASE box # Blank
      <3>1. ms = <<Enter(Len(log) + 1)>> \o <<Update(Blank)>>
        BY <2>3
      <3>2. ms = <<Enter(Len(log) + 1), Update(Blank)>>
        BY <3>1, OneAndOne
      <3> QED
        BY <2>1, <3>2
    <2> QED
      BY <2>2, <2>3
  <1>3. /\ n \in Nat /\ Len(toBridge') = (IF open THEN n + Len(ms) ELSE n)
        /\ \A i \in 1..n : toBridge'[i] = toBridge[i]
        /\ \A i \in 1..Len(toBridge') : i > n =>
             open /\ i - n \in 1..Len(ms) /\ toBridge'[i] = ms[i - n]
    <2>1. Tell(ms)
      BY <1>1 DEF SaveContact
    <2> HIDE DEF ms
    <2> QED
      BY <1>2, <2>1, Sent DEF TypeInv, Typed, WireTyped
  <1> HIDE DEF ms
  <1>4. /\ \A j \in 0..n : (Waits(j)' <=> Waits(j)) /\ Awaited(j)' = Awaited(j)
        /\ \A j \in 1..n :
             (Entered(j)' <=> Entered(j)) /\ (Listed(j)' <=> Listed(j)) /\ Received(j)' = Received(j)
    BY <1>1, <1>3, SentBefore
  <1>5. ASSUME NEW i \in 1..Len(toBridge'), i > n
        PROVE  /\ open /\ ~Listed(i)'
               /\ i = n + 1 => Entered(i)' /\ Received(i)'.contact = Len(log')
               /\ i # n + 1 => ~Entered(i)'
    <2>1. open /\ i - n \in 1..Len(ms) /\ toBridge'[i] = ms[i - n]
      BY <1>3, <1>5
    <2>2. i = n + 1 => toBridge'[i] = Enter(Len(log) + 1)
      <3>1. i = n + 1 => i - n = 1
        BY <1>3
      <3> QED
        BY <1>2, <2>1, <3>1
    <2>3. i # n + 1 => toBridge'[i] = Update(Blank)
      <3>1. i # n + 1 => i - n # 1
        BY <1>3
      <3> QED
        BY <1>2, <2>1, <3>1
    <2> QED
      BY <1>1, <2>1, <2>2, <2>3 DEF Listed, Entered, Received, Enter, Update
  <1>6. AnswersHoldLatest'
    <2>1. SUFFICES ASSUME NEW i \in 1..Len(toBridge'), Listed(i)',
                          NEW j \in 0..(i - 1), Waits(j)'
                   PROVE  Awaited(j)' \in Received(i)'.contacts \cup amended \/ Overtaken(j, i)'
      BY <1>1 DEF AnswersHoldLatest
    <2>2. i \in 1..n /\ j \in 0..n /\ Listed(i) /\ Waits(j)
      BY <1>3, <1>4, <1>5, <2>1
    <2>3. Awaited(j) \in Received(i).contacts \cup amended \/ Overtaken(j, i)
      BY <2>1, <2>2 DEF RecentInv, AnswersHoldLatest
    <2>4. Overtaken(j, i) => Overtaken(j, i)'
      BY <1>3, <1>4, <2>2 DEF Overtaken
    <2> QED
      BY <1>4, <2>2, <2>3, <2>4
  <1>7. LatestIsAwaited'
    <2>1. SUFFICES ASSUME open', NEW j \in 0..Len(toBridge'), Waits(j)'
                   PROVE  \/ Awaited(j)' = Len(log')
                          \/ \E k \in (j + 1)..Len(toBridge') : Entered(k)'
      BY DEF LatestIsAwaited, Overtaken
    <2>2. n + 1 \in 1..Len(toBridge')
      BY <1>1, <1>2, <1>3, <2>1
    <2>3. CASE j <= n
      <3>1. n + 1 \in (j + 1)..Len(toBridge')
        BY <1>3, <2>1, <2>2, <2>3
      <3>2. \A k \in 1..Len(toBridge') : k = n + 1 => Entered(k)'
        BY <1>3, <1>5
      <3> QED
        BY <2>2, <3>1, <3>2
    <2>4. CASE j > n
      <3>1. j \in 1..Len(toBridge') /\ j # 0
        BY <1>3, <2>1, <2>4
      <3>2. Entered(j)' /\ Awaited(j)' = Received(j)'.contact
        BY <2>1, <3>1 DEF Waits, Awaited
      <3> QED
        BY <1>5, <2>4, <3>1, <3>2
    <2> QED
      BY <1>3, <2>1, <2>3, <2>4
  <1>8. SkippedForAReason'
    BY <1>1, LogFacts, SkippedLogged DEF RecentInv, SkippedForAReason
  <1> QED
    BY <1>6, <1>7, <1>8 DEF RecentInv

\* Steps that leave the stream and the pending contact alone.
LEMMA StillRecent ==
  ASSUME TypeInv, RecentInv, UNCHANGED <<log, toBridge, pending, skipped>>,
         amended \subseteq amended', open' => open
  PROVE  RecentInv'
  <1>1. Len(toBridge) \in Nat /\ Len(toBridge') = Len(toBridge)
    BY DEF TypeInv, Typed, WireTyped
  <1>2. /\ \A j \in 0..Len(toBridge) : (Waits(j)' <=> Waits(j)) /\ Awaited(j)' = Awaited(j)
        /\ \A j \in 1..Len(toBridge) :
             (Entered(j)' <=> Entered(j)) /\ (Listed(j)' <=> Listed(j)) /\ Received(j)' = Received(j)
    BY <1>1, SentBefore
  <1>3. AnswersHoldLatest'
    <2>1. SUFFICES ASSUME NEW i \in 1..Len(toBridge), Listed(i)', NEW j \in 0..(i - 1), Waits(j)'
                   PROVE  Awaited(j)' \in Received(i)'.contacts \cup amended' \/ Overtaken(j, i)'
      BY <1>1 DEF AnswersHoldLatest
    <2>2. j \in 0..Len(toBridge) /\ Listed(i) /\ Waits(j)
      BY <1>1, <1>2, <2>1
    <2>3. Awaited(j) \in Received(i).contacts \cup amended \/ Overtaken(j, i)
      BY <2>1, <2>2 DEF RecentInv, AnswersHoldLatest
    <2>4. Overtaken(j, i) => Overtaken(j, i)'
      BY <1>1, <1>2, <2>2 DEF Overtaken
    <2> QED
      BY <1>2, <2>2, <2>3, <2>4
  <1>4. LatestIsAwaited'
    <2>1. SUFFICES ASSUME open, NEW j \in 0..Len(toBridge), Waits(j)'
                   PROVE  \/ Awaited(j)' = Len(log)
                          \/ \E k \in (j + 1)..Len(toBridge) : Entered(k)'
      BY <1>1 DEF LatestIsAwaited, Overtaken
    <2>2. Awaited(j) = Len(log) \/ \E k \in (j + 1)..Len(toBridge) : Entered(k)
      BY <1>1, <1>2, <2>1 DEF RecentInv, LatestIsAwaited, Overtaken
    <2> QED
      BY <1>1, <1>2, <2>1, <2>2
  <1>5. SkippedForAReason'
    BY DEF RecentInv, SkippedForAReason
  <1> QED
    BY <1>3, <1>4, <1>5 DEF RecentInv

\* With no contact pending, position 0 asks for nothing.
LEMMA SlotEmptyRecent ==
  ASSUME TypeInv, RecentInv, pending' = None, UNCHANGED <<log, amended>>,
         SkippedForAReason', open' => open,
         toBridge' = toBridge \/ toBridge' = <<>>
  PROVE  RecentInv'
  <1>1. ASSUME NEW i \in 1..Len(toBridge'), Listed(i)', NEW j \in 0..(i - 1), Waits(j)'
        PROVE  Awaited(j)' \in Received(i)'.contacts \cup amended' \/ Overtaken(j, i)'
    <2>1. toBridge' = toBridge /\ Len(toBridge) \in Nat /\ i \in 1..Len(toBridge)
      BY <1>1, EmptySeq DEF TypeInv, Typed, WireTyped
    <2>2. j # 0
      BY <1>1 DEF Waits
    <2>3. Listed(i) /\ Waits(j) /\ Awaited(j)' = Awaited(j) /\ Received(i)' = Received(i)
      BY <1>1, <2>1, <2>2 DEF Listed, Waits, Awaited, Entered, Received
    <2>4. Awaited(j) \in Received(i).contacts \cup amended \/ Overtaken(j, i)
      BY <1>1, <2>1, <2>3 DEF RecentInv, AnswersHoldLatest
    <2>5. Overtaken(j, i) => Overtaken(j, i)'
      BY <2>1 DEF Overtaken, Entered, Received
    <2> QED
      BY <2>3, <2>4, <2>5
  <1>2. ASSUME open', NEW j \in 0..Len(toBridge'), Waits(j)'
        PROVE  \/ Awaited(j)' = Len(log)
               \/ \E k \in (j + 1)..Len(toBridge') : Entered(k)'
    <2>1. j # 0
      BY <1>2 DEF Waits
    <2>2. toBridge' = toBridge /\ Len(toBridge) \in Nat /\ j \in 1..Len(toBridge)
      BY <1>2, <2>1, EmptySeq DEF TypeInv, Typed, WireTyped
    <2>3. Waits(j) /\ Awaited(j)' = Awaited(j)
      BY <1>2, <2>1, <2>2 DEF Waits, Awaited, Entered, Received
    <2>4. Awaited(j) = Len(log) \/ \E k \in (j + 1)..Len(toBridge) : Entered(k)
      BY <1>2, <2>2, <2>3 DEF RecentInv, LatestIsAwaited, Overtaken
    <2> QED
      BY <2>2, <2>3, <2>4 DEF Entered, Received
  <1>3. AnswersHoldLatest'
    BY <1>1 DEF AnswersHoldLatest
  <1>4. LatestIsAwaited'
    BY <1>2 DEF LatestIsAwaited, Overtaken
  <1> QED
    BY <1>3, <1>4 DEF RecentInv

\* A connection that begins or fails has nothing on its way.
LEMMA NothingToRead ==
  ASSUME toBridge' = <<>>, pending' = None, SkippedForAReason'
  PROVE  RecentInv'
  <1>1. Len(toBridge') = 0
    BY EmptySeq
  <1>2. \A j \in 0..0 : ~Waits(j)'
    BY DEF Waits
  <1>3. AnswersHoldLatest'
    BY <1>1 DEF AnswersHoldLatest
  <1>4. LatestIsAwaited'
    BY <1>1, <1>2 DEF LatestIsAwaited
  <1> QED
    BY <1>3, <1>4 DEF RecentInv

\* Reading moves every position down by one.  The contact at position 0 stays
\* pending, goes, or is replaced by the one whose announcement was read.
LEMMA ReadRecent ==
  ASSUME TypeInv, RecentInv, NEW type, Receive(type),
         UNCHANGED <<log, amended, open>>, SkippedForAReason',
         \/ pending' = None /\ type # "ENTEREVENT"
         \/ /\ type # "ENTEREVENT" /\ pending' # None
            /\ pending # None /\ pending'.contact = pending.contact
         \/ type = "ENTEREVENT" /\ pending'.contact = Head(toBridge).contact
  PROVE  RecentInv'
  <1> DEFINE n == Len(toBridge')
             Was(j) == IF j = 0 /\ type # "ENTEREVENT" THEN 0 ELSE j + 1
  <1>1. /\ n \in Nat /\ Len(toBridge) = n + 1
        /\ \A i \in 1..n : toBridge'[i] = toBridge[i + 1]
        /\ toBridge[1].type = type /\ Head(toBridge) = toBridge[1]
    BY Shifted DEF TypeInv, Typed, WireTyped
  <1>2. \A i \in 1..n :
          /\ (Entered(i)' <=> Entered(i + 1)) /\ (Listed(i)' <=> Listed(i + 1))
          /\ Received(i)' = Received(i + 1)
    BY <1>1 DEF Entered, Listed, Received
  <1>3. ASSUME NEW j \in 0..n, Waits(j)'
        PROVE  Was(j) \in 0..(n + 1) /\ Waits(Was(j)) /\ Awaited(j)' = Awaited(Was(j))
    <2>1. CASE j # 0
      BY <1>1, <1>2, <1>3, <2>1 DEF Waits, Awaited
    <2>2. CASE j = 0 /\ type = "ENTEREVENT"
      <3>1. Was(j) = 1 /\ Entered(1) /\ Awaited(j)' = Received(1).contact
        BY <1>1, <2>2 DEF Entered, Received, Awaited
      <3> QED
        BY <1>1, <3>1 DEF Waits, Awaited
    <2>3. CASE j = 0 /\ type # "ENTEREVENT"
      BY <1>1, <1>3, <2>3 DEF Waits, Awaited
    <2> QED
      BY <2>1, <2>2, <2>3
  <1>4. ASSUME NEW j \in 0..n, NEW k \in (Was(j) + 1)..(n + 1), Entered(k)
        PROVE  k - 1 \in (j + 1)..n /\ Entered(k - 1)'
    <2>1. k # 1 \/ (j = 0 /\ type # "ENTEREVENT")
      BY <1>1, <1>4
    <2>2. k # 1
      BY <1>1, <1>4, <2>1 DEF Entered, Received
    <2>3. k - 1 \in (j + 1)..n
      BY <1>1, <1>4, <2>2
    <2>4. k - 1 \in 1..n /\ (k - 1) + 1 = k
      BY <1>1, <1>4, <2>3
    <2> QED
      BY <1>2, <1>4, <2>3, <2>4
  <1>5. AnswersHoldLatest'
    <2>1. SUFFICES ASSUME NEW i \in 1..n, Listed(i)', NEW j \in 0..(i - 1), Waits(j)'
                   PROVE  Awaited(j)' \in Received(i)'.contacts \cup amended \/ Overtaken(j, i)'
      BY DEF AnswersHoldLatest
    <2>2. j \in 0..n /\ i + 1 \in 1..Len(toBridge) /\ Was(j) \in 0..((i + 1) - 1)
          /\ Listed(i + 1) /\ Received(i)' = Received(i + 1)
      BY <1>1, <1>2, <2>1
    <2>3. Waits(Was(j)) /\ Awaited(j)' = Awaited(Was(j))
      BY <1>3, <2>1, <2>2
    <2> HIDE DEF Was
    <2>4. Awaited(Was(j)) \in Received(i + 1).contacts \cup amended \/ Overtaken(Was(j), i + 1)
      BY <2>2, <2>3 DEF RecentInv, AnswersHoldLatest
    <2>5. ASSUME Overtaken(Was(j), i + 1) PROVE Overtaken(j, i)'
      <3>1. PICK k \in (Was(j) + 1)..((i + 1) - 1) : Entered(k)
        BY <2>5 DEF Overtaken
      <3>2. k \in (Was(j) + 1)..(n + 1) /\ k - 1 <= i - 1
        BY <1>1, <2>1, <2>2, <3>1
      <3>3. k - 1 \in (j + 1)..n /\ Entered(k - 1)'
        BY <1>4, <2>2, <3>1, <3>2
      <3>4. k - 1 \in (j + 1)..(i - 1)
        BY <2>1, <3>2, <3>3
      <3> QED
        BY <3>3, <3>4 DEF Overtaken
    <2> QED
      BY <2>2, <2>3, <2>4, <2>5
  <1>6. LatestIsAwaited'
    <2>1. SUFFICES ASSUME open, NEW j \in 0..n, Waits(j)'
                   PROVE  Awaited(j)' = Len(log) \/ \E k \in (j + 1)..n : Entered(k)'
      BY DEF LatestIsAwaited, Overtaken
    <2>2. Was(j) \in 0..Len(toBridge) /\ Waits(Was(j)) /\ Awaited(j)' = Awaited(Was(j))
      BY <1>1, <1>3, <2>1
    <2> HIDE DEF Was
    <2>3. Awaited(Was(j)) = Len(log) \/ Overtaken(Was(j), Len(toBridge) + 1)
      BY <2>1, <2>2 DEF RecentInv, LatestIsAwaited
    <2>4. ASSUME Overtaken(Was(j), Len(toBridge) + 1)
          PROVE  \E k \in (j + 1)..n : Entered(k)'
      <3>1. PICK k \in (Was(j) + 1)..(n + 1) : Entered(k)
        BY <1>1, <2>4 DEF Overtaken
      <3> QED
        BY <1>4, <2>1, <3>1
    <2> QED
      BY <2>2, <2>3, <2>4
  <1> QED
    BY <1>5, <1>6 DEF RecentInv

LEMMA AclogRecent ==
  ASSUME TypeInv, RecentInv, UseAclog \/ Answer \/ AnswerWithoutRecord \/ HangUp
  PROVE  RecentInv'
  <1>1. Len(log) \in Nat /\ Logged \subseteq Contact /\ setup \in MaybeCall
    BY LogFacts DEF TypeInv
  <1>2. CASE TypeNote
    <2>1. Len(log) + 1 \in Contact /\ box' = Len(log) + 1
      BY <1>1, <1>2, BridgeAssumption DEF TypeNote, Contact
    <2>2. /\ Update(box') \in Message /\ Update(box').type = "UPDATERESPONSE" /\ Tell(<<Update(box')>>)
          /\ pending' = pending /\ UNCHANGED <<log, amended, open, skipped>>
      BY <1>2, <2>1, Messages DEF TypeNote, Update
    <2> QED
      BY <2>2, ToldRecent
  <1>3. ASSUME NEW id \in Identity, SaveContact(id) PROVE RecentInv'
    BY <1>3, SavedRecent
  <1>4. CASE Answer
    <2> DEFINE m == IF Head(toAclog) = "LIST" THEN ListReply(RecentContacts) ELSE Settings(setup)
    <2>1. /\ Tell(<<m>>) /\ pending' = pending /\ UNCHANGED <<log, amended, open, skipped>>
      BY <1>4 DEF Answer, aclog, outcome
    <2>2. m \in Message /\ m.type # "ENTEREVENT"
      <3>1. RecentContacts \in SUBSET Contact
        BY DEF RecentContacts
      <3> QED
        BY <1>1, <3>1, Messages DEF ListReply, Settings
    <2>3. m.type = "LISTRESPONSE" =>
            \A c \in Logged : c = Len(log) => c \in m.contacts \cup amended
      <3>1. \A c \in Logged : c = Len(log) => c \in RecentContacts \cup amended
        BY <1>1, BridgeAssumption DEF RecentContacts
      <3> QED
        BY <3>1 DEF ListReply, Settings
    <2> HIDE DEF m
    <2> QED
      BY <2>1, <2>2, <2>3, ToldRecent
  <1>5. CASE \/ \E c \in Contact : AmendContact(c)
             \/ \E call \in SetupCall : ChangeSetup(call)
             \/ HangUp
    <2>1. UNCHANGED <<log, toBridge, pending, skipped>> /\ amended \subseteq amended' /\ (open' => open)
      BY <1>5 DEF AmendContact, ChangeSetup, HangUp, aclog, wire, outcome
    <2> QED
      BY <2>1, StillRecent
  <1>6. CASE AnswerWithoutRecord
    <2>1. /\ Tell(<<NoRecords>>) /\ pending' = pending /\ UNCHANGED <<log, amended, open, skipped>>
      BY <1>6 DEF AnswerWithoutRecord, aclog, outcome
    <2>2. PICK m \in Message : m = NoRecords /\ m.type = "NORECORDS"
      BY Messages
    <2> QED
      BY <2>1, <2>2, ToldRecent
  <1> QED
    BY <1>2, <1>3, <1>4, <1>5, <1>6 DEF UseAclog

\* The slot gives way to a newer contact, and an answer that lacks the pending
\* contact lacks it because it was edited.
LEMMA ReadsRecent ==
  ASSUME TypeInv, TypeInv', OrderInv, RecentInv, ReadMessage
  PROVE  RecentInv'
  <1>1. CASE ReadUpdate \/ ReadSettings \/ ReadLateAnswer \/ ReadNoRecords
    <2>1. /\ \E type : type # "ENTEREVENT" /\ Receive(type)
          /\ pending' = pending /\ UNCHANGED <<log, amended, open>> /\ UNCHANGED skipped
      BY <1>1 DEF ReadUpdate, ReadSettings, ReadLateAnswer, ReadNoRecords, aclog, outcome
    <2>2. SkippedForAReason'
      BY <2>1 DEF RecentInv, SkippedForAReason
    <2> QED
      BY <2>1, <2>2, ReadRecent
  <1>2. CASE ReadEnterEvent
    <2>1. /\ Receive("ENTEREVENT") /\ skipped' = Skip(pending, "overtaken")
          /\ pending'.contact = Head(toBridge).contact /\ UNCHANGED <<log, amended, open>>
      BY <1>2 DEF ReadEnterEvent, aclog
    <2>2. ASSUME pending # None
          PROVE  skipped' = skipped \cup {<<pending.contact, "overtaken">>}
                 /\ pending.contact < Len(log)
      <3>1. Head(toBridge).contact \in Logged /\ Len(log) \in Nat
            /\ \A c : Before(c) => c < Head(toBridge).contact
        BY <2>1, ReadOrdered, LogFacts DEF OrderInv, TypeInv
      <3>2. pending.contact \in Logged /\ Before(pending.contact)
        BY <2>2, SettledFacts DEF TypeInv, OrderInv, PendingBefore
      <3> QED
        BY <2>1, <2>2, <3>1, <3>2 DEF Skip, Logged
    <2>3. SkippedForAReason'
      <3>1. CASE pending = None
        BY <2>1, <3>1 DEF Skip, RecentInv, SkippedForAReason
      <3>2. CASE pending # None
        BY <2>1, <2>2, <3>2 DEF RecentInv, SkippedForAReason
      <3> QED
        BY <3>1, <3>2
    <2> QED
      BY <2>1, <2>3, ReadRecent
  <1>3. CASE ReadFullRecords
    <2>1. Receive("LISTRESPONSE") /\ pending # None /\ UNCHANGED <<log, amended, open>>
      BY <1>3 DEF ReadFullRecords, aclog
    <2>2. pending.contact \in Head(toBridge).contacts \cup amended
      <3>1. 1 \in 1..Len(toBridge) /\ Listed(1) /\ Head(toBridge) = Received(1)
        BY <2>1, Shifted DEF TypeInv, Typed, WireTyped, Listed, Received
      <3>2. Waits(0) /\ Awaited(0) = pending.contact /\ ~Overtaken(0, 1)
        BY <2>1 DEF Waits, Awaited, Overtaken
      <3> QED
        BY <3>1, <3>2 DEF RecentInv, AnswersHoldLatest
    <2>3. CASE pending.contact \in Head(toBridge).contacts
      <3>1. UNCHANGED skipped /\ pc' = "ingest"
            /\ pending' = [pending EXCEPT !.note = OrElse(log[pending.contact].note,
                                                          OrElse(@, state.note))]
        BY <1>3, <2>3 DEF ReadFullRecords
      <3>2. pending' # None
        BY <3>1 DEF TypeInv, Typed, ClientTyped
      <3>3. pending'.contact = pending.contact
        <4>1. pending \in Held
          BY <2>1, SettledFacts DEF TypeInv
        <4> QED
          BY <3>1, <4>1 DEF Held
      <3>4. SkippedForAReason'
        BY <2>1, <3>1 DEF RecentInv, SkippedForAReason
      <3> QED
        BY <2>1, <3>2, <3>3, <3>4, ReadRecent
    <2>4. CASE pending.contact \notin Head(toBridge).contacts
      <3>1. pending' = None /\ skipped' = skipped \cup {<<pending.contact, "nomatch">>}
        BY <1>3, <2>1, <2>4 DEF ReadFullRecords, Skip
      <3>2. SkippedForAReason'
        BY <2>1, <2>2, <2>4, <3>1 DEF RecentInv, SkippedForAReason
      <3> QED
        BY <2>1, <3>1, <3>2, ReadRecent
    <2> QED
      BY <2>3, <2>4
  <1> QED
    BY <1>1, <1>2, <1>3 DEF ReadMessage

LEMMA EndsRecent ==
  ASSUME TypeInv, RecentInv, Connect \/ RequestFullRecord \/ Import \/ ReadEndOfFile \/ Fail
  PROVE  RecentInv'
  <1>1. UNCHANGED <<log, amended>>
    BY DEF Connect, RequestFullRecord, Import, ReadEndOfFile, Fail, aclog
  <1>2. CASE RequestFullRecord
    BY <1>1, <1>2, StillRecent DEF RequestFullRecord, outcome
  <1>3. CASE Connect \/ Fail
    <2>1. UNCHANGED skipped /\ pending' = None /\ toBridge' = <<>>
      BY <1>3 DEF Connect, Fail, outcome
    <2>2. SkippedForAReason'
      BY <1>1, <2>1 DEF RecentInv, SkippedForAReason
    <2> QED
      BY <2>1, <2>2, NothingToRead
  <1>4. CASE Import \/ ReadEndOfFile
    <2>1. pending' = None /\ UNCHANGED <<toBridge, open>>
      BY <1>4 DEF Import, ReadEndOfFile, wire
    <2>2. \/ UNCHANGED skipped
          \/ \E why \in {"identity", "user_unavailable", "disconnected"} :
               skipped' = Skip(pending, why)
      BY <1>4 DEF Import, ReadEndOfFile
    <2>3. SkippedForAReason'
      <3>1. \A s \in skipped' : s \in skipped \/ (s[2] # "nomatch" /\ s[2] # "overtaken")
        BY <2>2 DEF Skip
      <3> QED
        BY <1>1, <3>1 DEF RecentInv, SkippedForAReason
    <2> QED
      BY <1>1, <2>1, <2>3, SlotEmptyRecent
  <1> QED
    BY <1>2, <1>3, <1>4

LEMMA InitRecent == Init => RecentInv
  <1> SUFFICES ASSUME Init PROVE RecentInv
    OBVIOUS
  <1>1. Len(toBridge) = 0 /\ ~open /\ skipped = {}
    BY DEF Init
  <1> QED
    BY <1>1 DEF RecentInv, AnswersHoldLatest, LatestIsAwaited, SkippedForAReason

LEMMA RecentStep == TypeInv /\ TypeInv' /\ OrderInv /\ RecentInv /\ [Next]_vars => RecentInv'
  <1> SUFFICES ASSUME TypeInv, TypeInv', OrderInv, RecentInv, [Next]_vars PROVE RecentInv'
    OBVIOUS
  <1>1. CASE UNCHANGED vars
    BY <1>1, StillRecent DEF vars
  <1> QED
    BY <1>1, AclogRecent, ReadsRecent, EndsRecent DEF Next, Run

\* "No matching full ACLog record" is only ever said of a contact that was
\* edited in ACLog, and the newest contact is never the one overtaken.
THEOREM SkipsAreJust == Spec => []SkippedForAReason
  <1>1. RecentInv => SkippedForAReason
    BY DEF RecentInv
  <1> QED
    BY InitTyped, TypeStep, InitOrdered, OrderStep, InitRecent, RecentStep, <1>1, PTL DEF Spec

-----------------------------------------------------------------------------
(***************************************************************************)
(* ImportsOwnContacts.  While the setup Call has not moved on this         *)
(* connection, the client knows it, is about to be told, or has asked      *)
(* ahead of every LIST, so it knows it before it reads an answer to one.   *)
(***************************************************************************)
Known == state.setup = setup
Asked(i) == \E k \in 1..(i - 1) : toAclog[k] = "GETUSERSETTINGS"
ToldBefore(i) == \E k \in 1..(i - 1) : Told(k)

ToldSetup == \A i \in 1..Len(toBridge) : Told(i) => Received(i).call = setup
SavedUnderSetup ==
  /\ pending # None => log[pending.contact].setup = setup
  /\ \A i \in 1..Len(toBridge) : Entered(i) => log[Received(i).contact].setup = setup
KnownAtAnswer == \A i \in 1..Len(toBridge) : Listed(i) => Known \/ ToldBefore(i)
KnownAtList == \A i \in 1..Len(toAclog) : toAclog[i] = "LIST" =>
  Known \/ ToldBefore(Len(toBridge) + 1) \/ Asked(i)
KnownWhenOpen == open =>
  Known \/ ToldBefore(Len(toBridge) + 1) \/ Asked(Len(toAclog) + 1)

Steady ==
  /\ ToldSetup /\ SavedUnderSetup /\ KnownAtAnswer /\ KnownAtList /\ KnownWhenOpen
  /\ pc = "ingest" => Known
SetupInv == ~moved => Steady

\* A message that announces nothing and does not answer LIST.
LEMMA ToldSteady ==
  ASSUME TypeInv, Steady, NEW m \in Message, Tell(<<m>>),
         UNCHANGED <<log, setup, open, state, pending, pc>>,
         m.type # "ENTEREVENT",
         m.type = "GETUSERSETTINGSRESPONSE" => m.call = setup,
         m.type = "LISTRESPONSE" => Known \/ ToldBefore(Len(toBridge) + 1),
         \/ toAclog' = toAclog
         \/ /\ open /\ toAclog # <<>> /\ toAclog' = Tail(toAclog)
            /\ Head(toAclog) = "GETUSERSETTINGS" => m.type = "GETUSERSETTINGSRESPONSE"
  PROVE  Steady'
  <1> DEFINE ms == <<m>>
             n == Len(toBridge)
  <1>1. ms \in Seq(Message) /\ Len(ms) = 1 /\ ms[1] = m
    OBVIOUS
  <1>2. /\ n \in Nat /\ Len(toBridge') = (IF open THEN n + 1 ELSE n)
        /\ \A i \in 1..n : toBridge'[i] = toBridge[i]
        /\ \A i \in 1..Len(toBridge') : i > n => open /\ i = n + 1 /\ toBridge'[i] = m
    <2>1. /\ n \in Nat /\ Len(toBridge') = (IF open THEN n + Len(ms) ELSE n)
          /\ \A i \in 1..n : toBridge'[i] = toBridge[i]
          /\ \A i \in 1..Len(toBridge') : i > n =>
               open /\ i - n \in 1..Len(ms) /\ toBridge'[i] = ms[i - n]
      <3>1. Tell(ms)
        OBVIOUS
      <3> HIDE DEF ms
      <3> QED
        BY <1>1, <3>1, Sent DEF TypeInv, Typed, WireTyped
    <2>2. ASSUME NEW i \in 1..Len(toBridge'), i > n
          PROVE  open /\ i = n + 1 /\ toBridge'[i] = m
      <3>1. open /\ i - n \in 1..Len(ms) /\ toBridge'[i] = ms[i - n]
        BY <2>1, <2>2
      <3>2. i - n = 1
        BY <1>1, <3>1
      <3> QED
        BY <1>1, <2>1, <3>1, <3>2
    <2> QED
      BY <1>1, <2>1, <2>2
  <1>3. \A i \in 1..Len(toBridge') : i \in 1..n \/ (open /\ i = n + 1)
    BY <1>2
  <1>4. ToldSetup' /\ SavedUnderSetup'
    BY <1>2, <1>3 DEF Steady, ToldSetup, SavedUnderSetup, Told, Entered, Received
  <1>5. Known' = Known
    BY DEF Known
  <1>6. ASSUME NEW i \in 1..(n + 1), ToldBefore(i)
        PROVE  ToldBefore(i)' /\ \E k \in 1..Len(toBridge') : Told(k)'
    <2>1. PICK k \in 1..(i - 1) : Told(k)
      BY <1>6 DEF ToldBefore
    <2>2. k \in 1..n /\ k \in 1..Len(toBridge') /\ Told(k)'
      BY <1>2, <2>1 DEF Told, Received
    <2> QED
      BY <2>1, <2>2 DEF ToldBefore
  <1>7. KnownAtAnswer'
    <2>1. SUFFICES ASSUME NEW i \in 1..Len(toBridge'), Listed(i)' PROVE Known \/ ToldBefore(i)'
      BY <1>5 DEF KnownAtAnswer
    <2>2. CASE i \in 1..n
      BY <1>2, <1>6, <2>1, <2>2 DEF Steady, KnownAtAnswer, Listed, Received
    <2>3. CASE i = n + 1
      <3>1. toBridge'[i] = m
        BY <1>2, <2>1, <2>3
      <3>2. m.type = "LISTRESPONSE"
        BY <2>1, <3>1 DEF Listed, Received
      <3> QED
        BY <1>2, <1>6, <2>3, <3>2
    <2> QED
      BY <1>3, <2>1, <2>2, <2>3
  <1>8. n + 1 \in 1..(n + 1)
    BY <1>2
  <1>9. ToldBefore(n + 1) => \E k \in 1..Len(toBridge') : Told(k)'
    BY <1>6, <1>8
  <1>10. CASE toAclog' = toAclog
    <2>1. KnownAtList'
      BY <1>2, <1>5, <1>9, <1>10 DEF Steady, KnownAtList, ToldBefore, Asked
    <2>2. KnownWhenOpen'
      BY <1>2, <1>5, <1>9, <1>10 DEF Steady, KnownWhenOpen, ToldBefore, Asked
    <2> QED
      BY <1>4, <1>5, <1>7, <2>1, <2>2 DEF Steady
  <1>11. CASE /\ open /\ toAclog # <<>> /\ toAclog' = Tail(toAclog)
              /\ Head(toAclog) = "GETUSERSETTINGS" => m.type = "GETUSERSETTINGSRESPONSE"
    <2>1. /\ Len(toAclog) \in Nat \ {0} /\ Len(toAclog') = Len(toAclog) - 1
          /\ \A i \in 1..Len(toAclog') : toAclog'[i] = toAclog[i + 1]
          /\ Head(toAclog) = toAclog[1]
      <3>1. toAclog \in Seq({"LIST", "GETUSERSETTINGS"}) /\ toAclog # <<>>
        BY <1>11 DEF TypeInv, Typed, WireTyped
      <3> QED
        BY <1>11, <3>1, HeadTailProperties
    <2>2. ASSUME NEW i \in 1..(Len(toAclog) + 1), 1 < i, Asked(i)
          PROVE  \/ \E k \in 1..Len(toBridge') : Told(k)'
                 \/ \E k \in 1..(i - 2) : toAclog'[k] = "GETUSERSETTINGS"
      <3>1. PICK k \in 1..(i - 1) : toAclog[k] = "GETUSERSETTINGS"
        BY <2>2 DEF Asked
      <3>2. CASE k = 1
        <4>1. n + 1 \in 1..Len(toBridge') /\ toBridge'[n + 1] = m
          BY <1>2, <1>11
        <4>2. m.type = "GETUSERSETTINGSRESPONSE"
          BY <1>11, <2>1, <3>1, <3>2
        <4>3. \A j \in 1..Len(toBridge') : j = n + 1 => Told(j)'
          BY <4>1, <4>2 DEF Told, Received
        <4> QED
          BY <4>1, <4>3
      <3>3. CASE k # 1
        <4>1. k - 1 \in 1..(i - 2) /\ k - 1 \in 1..Len(toAclog') /\ (k - 1) + 1 = k
          BY <2>1, <2>2, <3>1, <3>3
        <4> QED
          BY <2>1, <3>1, <4>1
      <3> QED
        BY <3>2, <3>3
    <2>3. KnownAtList'
      <3>1. SUFFICES ASSUME NEW i \in 1..Len(toAclog'), toAclog'[i] = "LIST"
                     PROVE  \/ Known \/ \E k \in 1..Len(toBridge') : Told(k)'
                            \/ \E k \in 1..(i - 1) : toAclog'[k] = "GETUSERSETTINGS"
        BY <1>2, <1>5 DEF KnownAtList, ToldBefore, Asked
      <3>2. i + 1 \in 1..Len(toAclog) /\ toAclog[i + 1] = "LIST"
            /\ i + 1 \in 1..(Len(toAclog) + 1) /\ 1 < i + 1 /\ (i + 1) - 2 = i - 1
        BY <2>1, <3>1
      <3>3. Known \/ ToldBefore(n + 1) \/ Asked(i + 1)
        BY <3>2 DEF Steady, KnownAtList
      <3> QED
        BY <1>9, <2>2, <3>2, <3>3
    <2>4. KnownWhenOpen'
      <3>1. SUFFICES ASSUME open
                     PROVE  \/ Known \/ \E k \in 1..Len(toBridge') : Told(k)'
                            \/ \E k \in 1..Len(toAclog') : toAclog'[k] = "GETUSERSETTINGS"
        BY <1>2, <1>5, <2>1 DEF KnownWhenOpen, ToldBefore, Asked
      <3>2. Known \/ ToldBefore(n + 1) \/ Asked(Len(toAclog) + 1)
        BY <3>1 DEF Steady, KnownWhenOpen
      <3>3. Len(toAclog) + 1 \in 1..(Len(toAclog) + 1) /\ 1 < Len(toAclog) + 1
            /\ (Len(toAclog) + 1) - 2 = Len(toAclog')
        BY <2>1
      <3> QED
        BY <1>9, <2>2, <3>2, <3>3
    <2> QED
      BY <1>4, <1>5, <1>7, <2>3, <2>4 DEF Steady
  <1> QED
    BY <1>10, <1>11

\* A contact is saved under the setup Call there is.
LEMMA SavedSteady ==
  ASSUME TypeInv, Steady, NEW id \in Identity, SaveContact(id)
  PROVE  Steady'
  <1> DEFINE n == Len(toBridge)
             e == [mycall |-> id.mycall, operator |-> id.operator,
                   note |-> box, setup |-> setup]
             ms == <<Enter(Len(log) + 1)>> \o (IF box = Blank THEN <<>> ELSE <<Update(Blank)>>)
  <1>1. /\ Len(log) + 1 \in Contact /\ Len(log) \in Nat /\ log \in Seq(Entry)
        /\ log' = Append(log, e) /\ setup \in MaybeCall /\ box \in Notes
        /\ UNCHANGED <<setup, open, toAclog, state, pending, pc>>
    <2>1. log \in Seq(Entry) /\ Len(log) < MaxContacts /\ Len(log) \in Nat /\ setup \in MaybeCall
      BY LogFacts DEF SaveContact, TypeInv, Typed, LogTyped
    <2>2. box \in Notes
      BY <2>1, BridgeAssumption DEF TypeInv, Typed, LogTyped, Notes, Contact
    <2> QED
      BY <2>1, <2>2, BridgeAssumption DEF SaveContact, Contact
  <1>2. /\ Len(log') = Len(log) + 1 /\ \A c \in 1..Len(log) : log'[c] = log[c]
        /\ log'[Len(log) + 1].setup = setup
    <2>1. e \in Entry
      <3>1. id.mycall \in MaybeCall /\ id.operator \in MaybeCall
        BY BridgeAssumption
      <3> QED
        BY <1>1, <3>1 DEF Entry
    <2>2. e.setup = setup
      OBVIOUS
    <2> HIDE DEF e
    <2>3. log'[Len(log) + 1] = e /\ Len(log') = Len(log) + 1
          /\ \A c \in 1..Len(log) : log'[c] = log[c]
      BY <1>1, <2>1, AppendProperties
    <2> QED
      BY <2>2, <2>3
  <1>3. /\ ms \in Seq(Message) /\ Len(ms) \in Nat \ {0} /\ ms[1] = Enter(Len(log) + 1)
        /\ \A k \in 1..Len(ms) : k = 1 \/ ms[k] = Update(Blank)
    <2>1. Enter(Len(log) + 1) \in Message /\ Update(Blank) \in Message
      BY <1>1, Messages
    <2>2. CASE box = Blank
      <3>1. ms = <<Enter(Len(log) + 1)>>
        BY <2>2
      <3> QED
        BY <2>1, <3>1
    <2>3. CASE box # Blank
      <3>1. ms = <<Enter(Len(log) + 1)>> \o <<Update(Blank)>>
        BY <2>3
      <3>2. ms = <<Enter(Len(log) + 1), Update(Blank)>>
        BY <3>1, OneAndOne
      <3> QED
        BY <2>1, <3>2
    <2> QED
      BY <2>2, <2>3
  <1>4. /\ n \in Nat /\ Len(toBridge') = (IF open THEN n + Len(ms) ELSE n)
        /\ \A i \in 1..n : toBridge'[i] = toBridge[i]
        /\ \A i \in 1..Len(toBridge') : i > n =>
             open /\ i - n \in 1..Len(ms) /\ toBridge'[i] = ms[i - n]
    <2>1. Len(log') = Len(log) + 1 /\ Tell(ms)
      BY <1>2 DEF SaveContact
    <2> HIDE DEF ms
    <2> QED
      BY <1>3, <2>1, Sent DEF TypeInv, Typed, WireTyped
  <1> HIDE DEF ms
  <1>5. ASSUME NEW i \in 1..Len(toBridge'), i > n
        PROVE  /\ ~Listed(i)' /\ ~Told(i)'
               /\ Entered(i)' => Received(i)'.contact = Len(log) + 1
    <2>1. i - n \in 1..Len(ms) /\ toBridge'[i] = ms[i - n]
      BY <1>4, <1>5
    <2>2. toBridge'[i] = Enter(Len(log) + 1) \/ toBridge'[i] = Update(Blank)
      BY <1>3, <2>1
    <2> QED
      BY <2>2 DEF Listed, Told, Entered, Received, Enter, Update
  <1>6. \A i \in 1..n :
          /\ (Entered(i)' <=> Entered(i)) /\ (Listed(i)' <=> Listed(i)) /\ (Told(i)' <=> Told(i))
          /\ Received(i)' = Received(i)
    BY <1>4 DEF Entered, Listed, Told, Received
  <1>7. n <= Len(toBridge') /\ Len(toBridge') \in Nat
    BY <1>3, <1>4
  <1>8. Known' = Known
    BY <1>1 DEF Known
  <1>9. ToldSetup'
    BY <1>1, <1>4, <1>5, <1>6, <1>7 DEF Steady, ToldSetup
  <1>10. SavedUnderSetup'
    <2>1. pending # None => pending.contact \in 1..Len(log)
      BY SettledFacts DEF TypeInv, Logged
    <2>2. pending' # None => log'[pending'.contact].setup = setup'
      BY <1>1, <1>2, <2>1 DEF Steady, SavedUnderSetup
    <2>3. ASSUME NEW i \in 1..Len(toBridge'), Entered(i)'
          PROVE  log'[Received(i)'.contact].setup = setup'
      <3>1. CASE i <= n
        <4>1. i \in 1..n /\ Entered(i) /\ Received(i)' = Received(i)
          BY <1>4, <1>6, <2>3, <3>1
        <4>2. Received(i).contact \in 1..Len(log)
          BY <4>1 DEF TypeInv, EntersLogged
        <4> QED
          BY <1>1, <1>2, <4>1, <4>2 DEF Steady, SavedUnderSetup
      <3>2. CASE i > n
        BY <1>1, <1>2, <1>5, <2>3, <3>2
      <3> QED
        BY <1>4, <1>7, <3>1, <3>2
    <2> QED
      BY <2>2, <2>3 DEF SavedUnderSetup
  <1>11. ASSUME NEW i \in 1..(n + 1), ToldBefore(i)
         PROVE  ToldBefore(i)' /\ \E k \in 1..Len(toBridge') : Told(k)'
    <2>1. PICK k \in 1..(i - 1) : Told(k)
      BY <1>11 DEF ToldBefore
    <2>2. k \in 1..n /\ k \in 1..Len(toBridge') /\ Told(k)'
      BY <1>4, <1>6, <1>7, <2>1
    <2> QED
      BY <2>1, <2>2 DEF ToldBefore
  <1>12. KnownAtAnswer'
    <2>1. SUFFICES ASSUME NEW i \in 1..Len(toBridge'), Listed(i)' PROVE Known \/ ToldBefore(i)'
      BY <1>8 DEF KnownAtAnswer
    <2>2. i \in 1..n /\ i \in 1..(n + 1) /\ Listed(i)
      BY <1>4, <1>5, <1>6, <1>7, <2>1
    <2> QED
      BY <1>11, <2>2 DEF Steady, KnownAtAnswer
  <1>13. ToldBefore(n + 1) => \E k \in 1..Len(toBridge') : Told(k)'
    <2>1. n + 1 \in 1..(n + 1)
      BY <1>4
    <2> QED
      BY <1>11, <2>1
  <1>14. KnownAtList'
    BY <1>1, <1>7, <1>8, <1>13 DEF Steady, KnownAtList, ToldBefore, Asked
  <1>15. KnownWhenOpen'
    BY <1>1, <1>7, <1>8, <1>13 DEF Steady, KnownWhenOpen, ToldBefore, Asked
  <1> QED
    BY <1>1, <1>8, <1>9, <1>10, <1>12, <1>14, <1>15 DEF Steady

\* Steps that leave the stream alone, or end it; LIST is sent over a connection
\* on which the setup Call is known, told or asked for.
LEMMA StillSteady ==
  ASSUME TypeInv, Steady, UNCHANGED <<log, setup, state>>,
         pending' = pending \/ pending' = None,
         \/ UNCHANGED <<open, toAclog, toBridge>>
         \/ ~open' /\ toAclog' = <<>> /\ (toBridge' = toBridge \/ toBridge' = <<>>)
         \/ open /\ open' = open /\ toBridge' = toBridge /\ toAclog' = Append(toAclog, "LIST"),
         pc' = "ingest" => pc = "ingest"
  PROVE  Steady'
  <1>1. Known' = Known
    BY DEF Known
  <1>2. /\ Len(toAclog) \in Nat /\ toAclog \in Seq({"LIST", "GETUSERSETTINGS"})
        /\ Len(toBridge) \in Nat
    BY DEF TypeInv, Typed, WireTyped
  <1>3. ToldSetup' /\ SavedUnderSetup' /\ KnownAtAnswer'
    <2>1. CASE toBridge' = toBridge
      BY <1>1, <2>1 DEF Steady, ToldSetup, SavedUnderSetup, KnownAtAnswer, ToldBefore, Told,
         Entered, Listed, Received
    <2>2. CASE toBridge' = <<>>
      <3>1. Len(toBridge') = 0
        BY <2>2, EmptySeq
      <3> QED
        BY <3>1 DEF Steady, ToldSetup, SavedUnderSetup, KnownAtAnswer
    <2> QED
      BY <2>1, <2>2
  <1>4. KnownAtList' /\ KnownWhenOpen'
    <2>1. CASE ~open' /\ toAclog' = <<>>
      <3>1. Len(toAclog') = 0
        BY <2>1, EmptySeq
      <3>2. KnownAtList'
        BY <3>1 DEF KnownAtList
      <3>3. KnownWhenOpen'
        BY <2>1 DEF KnownWhenOpen
      <3> QED
        BY <3>2, <3>3
    <2>2. CASE UNCHANGED <<open, toAclog, toBridge>>
      BY <1>1, <2>2 DEF Steady, KnownAtList, KnownWhenOpen, ToldBefore, Told, Received, Asked
    <2>3. CASE open /\ open' = open /\ toBridge' = toBridge /\ toAclog' = Append(toAclog, "LIST")
      <3>1. /\ Len(toAclog') = Len(toAclog) + 1
            /\ \A i \in 1..Len(toAclog) : toAclog'[i] = toAclog[i]
        BY <1>2, <2>3, AppendProperties
      <3>2. Known \/ (\E k \in 1..Len(toBridge) : Told(k)) \/ Asked(Len(toAclog) + 1)
        BY <1>2, <2>3 DEF Steady, KnownWhenOpen, ToldBefore
      <3>3. ASSUME NEW i \in 1..Len(toAclog'), toAclog'[i] = "LIST"
            PROVE  \/ Known \/ \E k \in 1..Len(toBridge) : Told(k)
                   \/ \E k \in 1..(i - 1) : toAclog'[k] = "GETUSERSETTINGS"
        <4>1. CASE i <= Len(toAclog)
          <5>1. i \in 1..Len(toAclog) /\ toAclog[i] = "LIST"
            BY <1>2, <3>1, <3>3, <4>1
          <5>2. Known \/ (\E k \in 1..Len(toBridge) : Told(k)) \/ Asked(i)
            BY <1>2, <5>1 DEF Steady, KnownAtList, ToldBefore
          <5> QED
            BY <1>2, <3>1, <5>1, <5>2 DEF Asked
        <4>2. CASE i = Len(toAclog) + 1
          BY <1>2, <3>1, <3>2, <4>2 DEF Asked
        <4> QED
          BY <1>2, <3>1, <4>1, <4>2
      <3>4. KnownAtList'
        BY <1>1, <1>2, <2>3, <3>3 DEF KnownAtList, ToldBefore, Asked, Told, Received
      <3>5. KnownWhenOpen'
        BY <1>1, <1>2, <2>3, <3>1, <3>2 DEF KnownWhenOpen, ToldBefore, Asked, Told, Received
      <3> QED
        BY <3>4, <3>5
    <2> QED
      BY <2>1, <2>2, <2>3
  <1> QED
    BY <1>1, <1>3, <1>4 DEF Steady

LEMMA ReadSteady ==
  ASSUME TypeInv, Steady, NEW type, Receive(type), UNCHANGED <<log, setup, open, toAclog>>,
         IF type = "GETUSERSETTINGSRESPONSE" THEN state'.setup = Head(toBridge).call
         ELSE state'.setup = state.setup,
         \/ pending' = None
         \/ pending # None /\ pending'.contact = pending.contact
         \/ type = "ENTEREVENT" /\ pending'.contact = Head(toBridge).contact,
         pc' = "ingest" => type = "LISTRESPONSE"
  PROVE  Steady'
  <1> DEFINE n == Len(toBridge')
  <1>1. /\ n \in Nat /\ Len(toBridge) = n + 1
        /\ \A i \in 1..n : toBridge'[i] = toBridge[i + 1]
        /\ toBridge[1].type = type /\ Head(toBridge) = toBridge[1]
    BY Shifted DEF TypeInv, Typed, WireTyped
  <1>2. \A i \in 1..n :
          /\ (Entered(i)' <=> Entered(i + 1)) /\ (Listed(i)' <=> Listed(i + 1))
          /\ (Told(i)' <=> Told(i + 1)) /\ Received(i)' = Received(i + 1)
    BY <1>1 DEF Entered, Listed, Told, Received
  <1>3. \A i \in 1..n : i + 1 \in 1..Len(toBridge)
    BY <1>1
  <1>4. 1 \in 1..Len(toBridge) /\ Received(1) = Head(toBridge) /\ Head(toBridge).type = type
    BY <1>1 DEF Received
  <1>5. type = "GETUSERSETTINGSRESPONSE" => Known'
    BY <1>4 DEF Known, Steady, ToldSetup, Told
  <1>6. type # "GETUSERSETTINGSRESPONSE" => Known' = Known /\ ~Told(1)
    BY <1>4 DEF Known, Told
  <1>7. ToldSetup'
    BY <1>2, <1>3 DEF Steady, ToldSetup
  <1>8. SavedUnderSetup'
    <2>1. \A i \in 1..n : Entered(i)' => log[Received(i)'.contact].setup = setup
      BY <1>2, <1>3 DEF Steady, SavedUnderSetup
    <2>2. type = "ENTEREVENT" => log[Head(toBridge).contact].setup = setup
      BY <1>4 DEF Steady, SavedUnderSetup, Entered
    <2>3. pending' # None => log[pending'.contact].setup = setup
      BY <2>2 DEF Steady, SavedUnderSetup
    <2> QED
      BY <2>1, <2>3 DEF SavedUnderSetup
  <1>9. ASSUME NEW i \in 1..(n + 1), Known \/ ToldBefore(i + 1)
        PROVE  Known' \/ ToldBefore(i)'
    <2>1. SUFFICES ASSUME type # "GETUSERSETTINGSRESPONSE", ToldBefore(i + 1)
                   PROVE  ToldBefore(i)'
      BY <1>5, <1>6, <1>9
    <2>2. PICK k \in 1..((i + 1) - 1) : Told(k)
      BY <2>1 DEF ToldBefore
    <2>3. k - 1 \in 1..(i - 1) /\ k - 1 \in 1..n /\ (k - 1) + 1 = k
      BY <1>1, <1>6, <1>9, <2>1, <2>2
    <2>4. Told(k - 1)'
      BY <1>2, <2>2, <2>3
    <2> QED
      BY <2>3, <2>4 DEF ToldBefore
  <1>10. KnownAtAnswer'
    <2>1. SUFFICES ASSUME NEW i \in 1..n, Listed(i)' PROVE Known' \/ ToldBefore(i)'
      BY DEF KnownAtAnswer
    <2>2. Known \/ ToldBefore(i + 1)
      BY <1>2, <1>3, <2>1 DEF Steady, KnownAtAnswer
    <2>3. i \in 1..(n + 1)
      BY <1>1, <2>1
    <2> QED
      BY <1>9, <2>2, <2>3
  <1>11. Known \/ ToldBefore(Len(toBridge) + 1) => Known' \/ \E k \in 1..n : Told(k)'
    <2>1. SUFFICES ASSUME type # "GETUSERSETTINGSRESPONSE", ToldBefore(Len(toBridge) + 1)
                   PROVE  \E k \in 1..n : Told(k)'
      BY <1>5, <1>6
    <2>2. PICK k \in 1..(n + 1) : Told(k)
      BY <1>1, <2>1 DEF ToldBefore
    <2>3. k - 1 \in 1..n /\ (k - 1) + 1 = k
      BY <1>1, <1>6, <2>1, <2>2
    <2> QED
      BY <1>2, <2>2, <2>3
  <1>12. KnownAtList' /\ KnownWhenOpen'
    <2>1. KnownAtList'
      BY <1>1, <1>11 DEF Steady, KnownAtList, ToldBefore, Asked
    <2>2. KnownWhenOpen'
      BY <1>1, <1>11 DEF Steady, KnownWhenOpen, ToldBefore, Asked
    <2> QED
      BY <2>1, <2>2
  <1>13. type = "LISTRESPONSE" => Known'
    <2>1. \A k \in 1..(1 - 1) : FALSE
      OBVIOUS
    <2> QED
      BY <1>4, <1>6, <2>1 DEF Steady, KnownAtAnswer, Listed, ToldBefore
  <1> QED
    BY <1>7, <1>8, <1>10, <1>12, <1>13 DEF Steady

\* A connection begins by asking for the setup Call.
LEMMA ConnectSteady ==
  ASSUME Connect
  PROVE  Steady'
  <1>1. Len(toBridge') = 0 /\ Len(toAclog') = 1 /\ toAclog'[1] = "GETUSERSETTINGS"
        /\ pending' = None /\ pc' = "read"
    BY DEF Connect
  <1>2. ToldSetup' /\ SavedUnderSetup' /\ KnownAtAnswer' /\ KnownAtList'
    BY <1>1 DEF ToldSetup, SavedUnderSetup, KnownAtAnswer, KnownAtList
  <1>3. KnownWhenOpen'
    BY <1>1 DEF KnownWhenOpen, Asked
  <1> QED
    BY <1>1, <1>2, <1>3 DEF Steady

LEMMA AclogSteady ==
  ASSUME TypeInv, SetupInv, ~moved', UseAclog \/ Answer \/ AnswerWithoutRecord \/ HangUp
  PROVE  Steady'
  <1>1. Steady
    BY DEF SetupInv, UseAclog, TypeNote, SaveContact, AmendContact, ChangeSetup, Answer,
       AnswerWithoutRecord, HangUp
  <1>2. Len(log) \in Nat /\ setup \in MaybeCall
    BY LogFacts DEF TypeInv
  <1>3. CASE TypeNote
    <2>1. Len(log) + 1 \in Contact /\ box' = Len(log) + 1
      BY <1>2, <1>3, BridgeAssumption DEF TypeNote, Contact
    <2>2. /\ Update(box') \in Message /\ Update(box').type = "UPDATERESPONSE" /\ Tell(<<Update(box')>>)
          /\ UNCHANGED <<log, setup, open, state, pending, pc>> /\ toAclog' = toAclog
      BY <1>3, <2>1, Messages DEF TypeNote, Update
    <2> QED
      BY <1>1, <2>2, ToldSteady
  <1>4. ASSUME NEW id \in Identity, SaveContact(id) PROVE Steady'
    BY <1>1, <1>4, SavedSteady
  <1>5. CASE Answer
    <2> DEFINE m == IF Head(toAclog) = "LIST" THEN ListReply(RecentContacts) ELSE Settings(setup)
    <2>1. /\ Tell(<<m>>) /\ open /\ toAclog # <<>> /\ toAclog' = Tail(toAclog)
          /\ UNCHANGED <<log, setup, open, state, pending, pc>>
      BY <1>5 DEF Answer, aclog, outcome
    <2>2. m \in Message /\ m.type # "ENTEREVENT"
      <3>1. RecentContacts \in SUBSET Contact
        BY DEF RecentContacts
      <3> QED
        BY <1>2, <3>1, Messages DEF ListReply, Settings
    <2>3. /\ m.type = "GETUSERSETTINGSRESPONSE" => m.call = setup
          /\ Head(toAclog) = "GETUSERSETTINGS" => m.type = "GETUSERSETTINGSRESPONSE"
          /\ m.type = "LISTRESPONSE" => Head(toAclog) = "LIST"
      BY DEF ListReply, Settings
    <2>4. Head(toAclog) = "LIST" => Known \/ ToldBefore(Len(toBridge) + 1)
      <3>1. 1 \in 1..Len(toAclog) /\ Head(toAclog) = toAclog[1] /\ ~Asked(1)
        BY <2>1 DEF TypeInv, Typed, WireTyped, Asked
      <3> QED
        BY <1>1, <3>1 DEF Steady, KnownAtList
    <2> HIDE DEF m
    <2> QED
      BY <1>1, <2>1, <2>2, <2>3, <2>4, ToldSteady
  <1>6. CASE (\E c \in Contact : AmendContact(c)) \/ HangUp
    BY <1>1, <1>6, StillSteady DEF AmendContact, HangUp, aclog, wire
  <1>7. ~(\E call \in SetupCall : ChangeSetup(call))
    BY DEF ChangeSetup
  <1>8. CASE AnswerWithoutRecord
    <2>1. /\ Tell(<<NoRecords>>) /\ open /\ toAclog # <<>> /\ toAclog' = Tail(toAclog)
          /\ Head(toAclog) = "LIST"
          /\ UNCHANGED <<log, setup, open, state, pending, pc>>
      BY <1>8 DEF AnswerWithoutRecord, aclog, outcome
    <2>2. PICK m \in Message : m = NoRecords /\ m.type = "NORECORDS"
      BY Messages
    <2> QED
      BY <1>1, <2>1, <2>2, ToldSteady
  <1> QED
    BY <1>3, <1>4, <1>5, <1>6, <1>7, <1>8 DEF UseAclog

LEMMA ClientSteady ==
  ASSUME TypeInv, SetupInv, ~moved', Run \/ Fail
  PROVE  Steady'
  <1>1. CASE Connect
    BY <1>1, ConnectSteady
  <1>2. CASE ReadMessage
    <2>1. Steady /\ UNCHANGED <<log, setup, open, toAclog>>
      BY <1>2 DEF SetupInv, ReadMessage, ReadUpdate, ReadSettings, ReadEnterEvent,
         ReadLateAnswer, ReadFullRecords, ReadNoRecords, aclog, outcome
    <2>2. state \in [setup : MaybeCall, note : Notes]
      BY DEF TypeInv, Typed, ClientTyped
    <2>3. pc = "read" /\ pc' \in {"read", "delay", "ingest"} /\ (pc' = "ingest" => ReadFullRecords)
      BY <1>2 DEF ReadMessage, ReadUpdate, ReadSettings, ReadEnterEvent,
         ReadLateAnswer, ReadFullRecords, ReadNoRecords, Receive
    <2>4. CASE ReadUpdate
      <3>1. Receive("UPDATERESPONSE") /\ state'.setup = state.setup /\ pending' = pending
            /\ pc' # "ingest"
        BY <2>2, <2>3, <2>4 DEF ReadUpdate
      <3> QED
        BY <2>1, <3>1, ReadSteady
    <2>5. CASE ReadSettings
      <3>1. Receive("GETUSERSETTINGSRESPONSE") /\ state'.setup = Head(toBridge).call
            /\ pending' = pending /\ pc' # "ingest"
        BY <2>2, <2>3, <2>5 DEF ReadSettings
      <3> QED
        BY <2>1, <3>1, ReadSteady
    <2>6. CASE ReadEnterEvent
      <3>1. Receive("ENTEREVENT") /\ state'.setup = state.setup
            /\ pending'.contact = Head(toBridge).contact /\ pc' # "ingest"
        BY <2>6 DEF ReadEnterEvent
      <3> QED
        BY <2>1, <3>1, ReadSteady
    <2>7. CASE ReadLateAnswer
      <3>1. Receive("LISTRESPONSE") /\ state'.setup = state.setup /\ pending' = pending
        BY <2>7 DEF ReadLateAnswer
      <3> QED
        BY <2>1, <3>1, ReadSteady
    <2>8. CASE ReadFullRecords
      <3>1. Receive("LISTRESPONSE") /\ state'.setup = state.setup /\ pending # None
        BY <2>8 DEF ReadFullRecords
      <3>2. pending' = None \/ pending'.contact = pending.contact
        <4>1. pending \in Held
          BY <3>1, SettledFacts DEF TypeInv
        <4> QED
          BY <2>8, <4>1 DEF ReadFullRecords, Held
      <3> QED
        BY <2>1, <3>1, <3>2, ReadSteady
    <2>9. CASE ReadNoRecords
      <3>1. Receive("NORECORDS") /\ state'.setup = state.setup /\ pending' = pending
            /\ pc' # "ingest"
        BY <2>3, <2>9 DEF ReadNoRecords
      <3>2. pending' = None \/ (pending # None /\ pending'.contact = pending.contact)
        BY <3>1
      <3> QED
        BY <2>1, <3>1, <3>2, ReadSteady
    <2> QED
      BY <1>2, <2>4, <2>5, <2>6, <2>7, <2>8, <2>9 DEF ReadMessage
  <1>3. CASE RequestFullRecord
    BY <1>3, StillSteady DEF RequestFullRecord, SetupInv, aclog
  <1>4. CASE Import \/ ReadEndOfFile
    BY <1>4, StillSteady DEF Import, ReadEndOfFile, SetupInv, aclog, wire
  <1>5. CASE Fail
    BY <1>5, StillSteady DEF Fail, SetupInv, aclog
  <1> QED
    BY <1>1, <1>2, <1>3, <1>4, <1>5 DEF Run

LEMMA InitSteady == Init => SetupInv
  <1> SUFFICES ASSUME Init PROVE Steady
    BY DEF SetupInv
  <1>1. Len(toBridge) = 0 /\ Len(toAclog) = 0 /\ ~open /\ pending = None /\ pc # "ingest"
    BY DEF Init
  <1> QED
    BY <1>1 DEF Steady, ToldSetup, SavedUnderSetup, KnownAtAnswer, KnownAtList, KnownWhenOpen

LEMMA SetupStep == TypeInv /\ SetupInv /\ [Next]_vars => SetupInv'
  <1> SUFFICES ASSUME TypeInv, SetupInv, [Next]_vars, ~moved' PROVE Steady'
    BY DEF SetupInv
  <1>1. CASE UNCHANGED vars
    BY <1>1, StillSteady DEF vars, SetupInv
  <1> QED
    BY <1>1, AclogSteady, ClientSteady DEF Next

\* What Import decides, it decides with the setup Call the contact was saved
\* under.
LEMMA ImportJudges ==
  ASSUME TypeInv, SetupInv, [Next]_vars, NEW i \in DOMAIN imported' \ DOMAIN imported
  PROVE  moved \/ OwnContact(imported'[i].contact)
  <1>1. /\ Import /\ Matched(log[pending.contact].mycall, state.setup,
                             log[pending.contact].operator)
        /\ imported' = Append(imported, pending) /\ pc = "ingest"
    BY DEF Next, vars, Run, ReadMessage, Fail, UseAclog, Answer, AnswerWithoutRecord, HangUp,
       Connect, ReadUpdate, ReadSettings, ReadEnterEvent, ReadLateAnswer, ReadFullRecords,
       ReadNoRecords, RequestFullRecord, Import, ReadEndOfFile, TypeNote, SaveContact, AmendContact, ChangeSetup, outcome
  <1>2. pending # None /\ pending \in Held /\ imported \in Seq(Held)
        /\ DOMAIN imported = 1..Len(imported) /\ Len(imported) \in Nat
    BY <1>1, SettledFacts DEF TypeInv, Typed, ClientTyped
  <1>3. imported'[i] = pending
    <2>1. imported' \in Seq(Held) /\ Len(imported') = Len(imported) + 1
          /\ imported'[Len(imported) + 1] = pending
      BY <1>1, <1>2, AppendProperties
    <2>2. i = Len(imported) + 1
      BY <1>2, <2>1
    <2> QED
      BY <2>1, <2>2
  <1>4. moved \/ (state.setup = setup /\ log[pending.contact].setup = setup)
    BY <1>1, <1>2 DEF SetupInv, Steady, SavedUnderSetup, Known
  <1> QED
    BY <1>1, <1>3, <1>4 DEF OwnContact

\* Other operators' contacts are never imported, unless the setup Call was
\* changed on the connection that announced them.
THEOREM OwnContactsOnly == Spec => ImportsOwnContacts
  <1>1. TypeInv /\ SetupInv /\ [Next]_vars =>
          [\A i \in DOMAIN imported' \ DOMAIN imported :
             moved \/ OwnContact(imported'[i].contact)]_vars
    BY ImportJudges
  <1> QED
    BY InitTyped, TypeStep, InitSteady, SetupStep, <1>1, PTL DEF Spec, ImportsOwnContacts

-----------------------------------------------------------------------------
(***************************************************************************)
(* NeverAnEarlierNote.  Position 0 is the client's cache and position i    *)
(* the i-th message on its way.  A text is good for the contact it was     *)
(* typed for; before the announcement of any other contact, and at the end *)
(* of an open stream, the box was told empty since.                        *)
(***************************************************************************)
Noted(i) == Received(i).type = "UPDATERESPONSE"
NoteAt(j) == IF j = 0 THEN state.note ELSE Received(j).note
Text(j) == (j = 0 \/ Noted(j)) /\ NoteAt(j) # Blank
Cleared(j, i) == \E k \in (j + 1)..(i - 1) : Noted(k) /\ NoteAt(k) = Blank

NotesKept == \A c \in Logged : log[c].note \in {Blank, c}
NotesTrue == \A j \in 0..Len(toBridge) : Text(j) =>
  \/ NoteAt(j) = box
  \/ NoteAt(j) \in Logged /\ log[NoteAt(j)].note = NoteAt(j)
OldTextCleared == \A i \in 1..Len(toBridge) : Entered(i) =>
  \A j \in 0..(i - 1) : Text(j) => NoteAt(j) = log[Received(i).contact].note \/ Cleared(j, i)
BoxTold == open => \A j \in 0..Len(toBridge) :
  Text(j) => NoteAt(j) = box \/ Cleared(j, Len(toBridge) + 1)
TextAheadOfPending == pending # None =>
  \A j \in 0..Len(toBridge) : Text(j) => NoteAt(j) >= pending.contact
TextAhead == \A i \in 1..Len(toBridge) : Entered(i) =>
  \A j \in (i + 1)..Len(toBridge) : Text(j) => NoteAt(j) >= Received(i).contact

NoteOk(r) ==
  r.note # log[r.contact].note => log[r.contact].note = Blank /\ r.note > r.contact

NotesOnTheWay ==
  NotesKept /\ NotesTrue /\ OldTextCleared /\ BoxTold /\ TextAheadOfPending /\ TextAhead
NoteInv == NotesOnTheWay /\ (pending # None => NoteOk(pending)) /\ NeverAnEarlierNote

\* What is said of the box is blank, or a contact's number.
LEMMA NoteFacts ==
  ASSUME TypeInv
  PROVE  /\ \A j \in 0..Len(toBridge) : Text(j) => NoteAt(j) \in Nat \ {0}
         /\ Notes \subseteq Nat /\ Len(log) \in Nat /\ Len(toBridge) \in Nat
         /\ box \in {Blank, Len(log) + 1} /\ Blank = 0
         /\ \A c \in Logged : c \in Nat /\ log[c].note \in Nat
  <1>1. /\ Notes \subseteq Nat /\ Len(log) \in Nat /\ Len(toBridge) \in Nat
        /\ box \in {Blank, Len(log) + 1} /\ Blank = 0
        /\ \A c \in Logged : c \in Nat /\ log[c].note \in Notes
    BY LogFacts DEF TypeInv, Typed, LogTyped, WireTyped, Notes, Contact, Blank, Logged
  <1>2. ASSUME NEW j \in 0..Len(toBridge), Text(j) PROVE NoteAt(j) \in Nat \ {0}
    <2>1. CASE j = 0
      <3>1. state.note \in Notes
        BY DEF TypeInv, Typed, ClientTyped
      <3> QED
        BY <1>1, <1>2, <2>1, <3>1 DEF Text, NoteAt
    <2>2. CASE j # 0
      <3>1. j \in 1..Len(toBridge) /\ toBridge \in Seq(Message)
        BY <1>1, <2>2 DEF TypeInv, Typed, WireTyped
      <3>2. toBridge[j] \in Message
        BY <3>1, ElementOfSeq
      <3>3. toBridge[j].type = "UPDATERESPONSE" /\ NoteAt(j) = toBridge[j].note
        BY <1>2, <2>2 DEF Text, Noted, NoteAt, Received
      <3>4. NoteAt(j) \in Notes
        BY <3>2, <3>3, MessageKinds DEF Notes
      <3> QED
        BY <1>1, <1>2, <3>4 DEF Text
    <2> QED
      BY <2>1, <2>2
  <1> QED
    BY <1>1, <1>2

\* Sending leaves what was said before as it is.
LEMMA SaidBefore ==
  ASSUME NEW n \in Nat, \A i \in 1..n : toBridge'[i] = toBridge[i], state' = state
  PROVE  /\ \A j \in 0..n : (Text(j)' <=> Text(j)) /\ NoteAt(j)' = NoteAt(j)
         /\ \A j \in 1..n : (Entered(j)' <=> Entered(j)) /\ Received(j)' = Received(j)
         /\ \A j \in 0..n, i \in 0..(n + 1) : Cleared(j, i) => Cleared(j, i)'
  <1>1. \A j \in 1..n :
          /\ (Entered(j)' <=> Entered(j)) /\ (Noted(j)' <=> Noted(j))
          /\ Received(j)' = Received(j) /\ NoteAt(j)' = NoteAt(j)
    BY DEF Entered, Noted, Received, NoteAt
  <1>2. \A j \in 0..n : (Text(j)' <=> Text(j)) /\ NoteAt(j)' = NoteAt(j)
    <2>1. TAKE j \in 0..n
    <2>2. CASE j = 0
      BY <2>2 DEF Text, NoteAt
    <2>3. CASE j # 0
      BY <1>1, <2>3 DEF Text
    <2> QED
      BY <2>2, <2>3
  <1>3. ASSUME NEW j \in 0..n, NEW i \in 0..(n + 1), Cleared(j, i) PROVE Cleared(j, i)'
    <2>1. PICK k \in (j + 1)..(i - 1) : Noted(k) /\ NoteAt(k) = Blank
      BY <1>3 DEF Cleared
    <2>2. k \in 1..n
      BY <2>1
    <2> QED
      BY <1>1, <2>1, <2>2 DEF Cleared
  <1> QED
    BY <1>1, <1>2, <1>3

\* Contacts imported keep their note while the log only grows.
LEMMA ImportedStay ==
  ASSUME TypeInv, NeverAnEarlierNote, imported' = imported,
         \A c \in Logged : log'[c] = log[c]
  PROVE  NeverAnEarlierNote'
  <1>1. \A i \in DOMAIN imported : imported[i].contact \in Logged
    <2>1. imported \in Seq(Held)
      BY DEF TypeInv, Typed, OutcomeTyped
    <2>2. \A i \in DOMAIN imported : imported[i] \in Held
      BY <2>1
    <2> QED
      BY <2>2 DEF Held
  <1> QED
    BY <1>1 DEF NeverAnEarlierNote

\* A message that announces nothing: an answer, or text for the next contact.
LEMMA ToldNotes ==
  ASSUME TypeInv, NotesOnTheWay, NEW m \in Message, Tell(<<m>>), m.type # "ENTEREVENT",
         UNCHANGED <<log, open, state, pending>>,
         \/ m.type # "UPDATERESPONSE" /\ box' = box
         \/ box = Blank /\ box' = Len(log) + 1 /\ m.note = box'
  PROVE  NotesOnTheWay'
  <1>0. PICK n \in Nat : n = Len(toBridge)
    BY DEF TypeInv, Typed, WireTyped
  <1> DEFINE ms == <<m>>
  <1>1. ms \in Seq(Message) /\ Len(ms) = 1 /\ ms[1] = m
    OBVIOUS
  <1>2. /\ n \in Nat /\ Len(toBridge') = (IF open THEN n + 1 ELSE n)
        /\ \A i \in 1..n : toBridge'[i] = toBridge[i]
        /\ \A i \in 1..Len(toBridge') : i > n => open /\ i = n + 1 /\ Received(i)' = m
    <2>1. /\ n \in Nat /\ Len(toBridge') = (IF open THEN n + Len(ms) ELSE n)
          /\ \A i \in 1..n : toBridge'[i] = toBridge[i]
          /\ \A i \in 1..Len(toBridge') : i > n =>
               open /\ i - n \in 1..Len(ms) /\ toBridge'[i] = ms[i - n]
      <3>1. Tell(ms)
        OBVIOUS
      <3> HIDE DEF ms
      <3> QED
        BY <1>0, <1>1, <3>1, Sent DEF TypeInv, Typed, WireTyped
    <2>2. ASSUME NEW i \in 1..Len(toBridge'), i > n
          PROVE  open /\ i = n + 1 /\ Received(i)' = m
      <3>1. open /\ i - n \in 1..Len(ms) /\ toBridge'[i] = ms[i - n]
        BY <2>1, <2>2
      <3>2. i - n = 1
        BY <1>1, <3>1
      <3> QED
        BY <1>1, <2>1, <3>1, <3>2 DEF Received
    <2> QED
      BY <1>1, <2>1, <2>2
  <1> HIDE DEF ms
  <1>3. /\ \A j \in 0..n : (Text(j)' <=> Text(j)) /\ NoteAt(j)' = NoteAt(j)
        /\ \A j \in 1..n : (Entered(j)' <=> Entered(j)) /\ Received(j)' = Received(j)
        /\ \A j \in 0..n, i \in 0..(n + 1) : Cleared(j, i) => Cleared(j, i)'
    BY <1>2, SaidBefore
  <1>4. ASSUME NEW j \in 0..Len(toBridge'), j > n, Text(j)'
        PROVE  open /\ j = n + 1 /\ box = Blank /\ NoteAt(j)' = box' /\ box' = Len(log) + 1
    <2>1. j \in 1..Len(toBridge') /\ j # 0
      BY <1>2, <1>4
    <2>2. open /\ j = n + 1 /\ Received(j)' = m
      BY <1>2, <1>4, <2>1
    <2>3. Received(j)'.type = "UPDATERESPONSE" /\ NoteAt(j)' = Received(j)'.note
      BY <1>4, <2>1 DEF Text, Noted, NoteAt
    <2> QED
      BY <2>2, <2>3
  <1>5. ASSUME NEW i \in 1..Len(toBridge'), Entered(i)' PROVE i \in 1..n
    BY <1>2, <1>5 DEF Entered
  <1>6. /\ \A j \in 0..n : Text(j) => NoteAt(j) # Blank
        /\ Len(log) \in Nat /\ Blank = 0
        /\ \A i \in 1..n : Entered(i) => Received(i).contact \in 1..Len(log)
    BY <1>0, NoteFacts DEF Text, TypeInv, EntersLogged
  <1>7. NotesTrue'
    <2>1. SUFFICES ASSUME NEW j \in 0..Len(toBridge'), Text(j)'
                   PROVE  \/ NoteAt(j)' = box'
                          \/ NoteAt(j)' \in Logged /\ log[NoteAt(j)'].note = NoteAt(j)'
      BY DEF NotesTrue, Logged
    <2>2. CASE j \in 0..n
      BY <1>0, <1>3, <1>6, <2>1, <2>2 DEF NotesOnTheWay, NotesTrue
    <2>3. CASE j > n
      BY <1>4, <2>1, <2>3
    <2> QED
      BY <1>2, <2>1, <2>2, <2>3
  <1>8. OldTextCleared'
    <2>1. SUFFICES ASSUME NEW i \in 1..Len(toBridge'), Entered(i)', NEW j \in 0..(i - 1), Text(j)'
                   PROVE  NoteAt(j)' = log[Received(i)'.contact].note \/ Cleared(j, i)'
      BY DEF OldTextCleared
    <2>2. i \in 1..n /\ j \in 0..n /\ i \in 0..(n + 1)
      BY <1>2, <1>5, <2>1
    <2> QED
      BY <1>0, <1>3, <2>1, <2>2 DEF NotesOnTheWay, OldTextCleared
  <1>9. BoxTold'
    <2>1. SUFFICES ASSUME open, NEW j \in 0..(n + 1), Text(j)'
                   PROVE  NoteAt(j)' = box' \/ Cleared(j, (n + 1) + 1)'
      BY <1>2 DEF BoxTold
    <2>2. CASE j \in 0..n
      <3>1. Text(j) /\ NoteAt(j)' = NoteAt(j)
        BY <1>3, <2>1, <2>2
      <3>2. NoteAt(j) = box \/ Cleared(j, n + 1)
        BY <1>0, <2>1, <2>2, <3>1 DEF NotesOnTheWay, BoxTold
      <3>3. Cleared(j, n + 1) => Cleared(j, n + 1)'
        BY <1>2, <1>3, <2>2
      <3>4. Cleared(j, n + 1)' => Cleared(j, (n + 1) + 1)'
        BY <1>2, <2>2 DEF Cleared
      <3>5. NoteAt(j) = box => NoteAt(j) = box'
        BY <1>6, <2>2, <3>1
      <3> QED
        BY <3>1, <3>2, <3>3, <3>4, <3>5
    <2>3. CASE j > n
      BY <1>2, <1>4, <2>1, <2>3
    <2> QED
      BY <1>2, <2>1, <2>2, <2>3
  <1>10. TextAheadOfPending'
    <2>1. SUFFICES ASSUME pending # None, NEW j \in 0..Len(toBridge'), Text(j)'
                   PROVE  NoteAt(j)' >= pending.contact
      BY DEF TextAheadOfPending
    <2>2. CASE j \in 0..n
      BY <1>0, <1>3, <2>1, <2>2 DEF NotesOnTheWay, TextAheadOfPending
    <2>3. CASE j > n
      <3>1. pending.contact \in 1..Len(log)
        BY <2>1 DEF TypeInv, Typed, ClientTyped, Held, Logged
      <3> QED
        BY <1>4, <1>6, <2>1, <2>3, <3>1
    <2> QED
      BY <1>2, <2>1, <2>2, <2>3
  <1>11. TextAhead'
    <2>1. SUFFICES ASSUME NEW i \in 1..Len(toBridge'), Entered(i)',
                          NEW j \in (i + 1)..Len(toBridge'), Text(j)'
                   PROVE  NoteAt(j)' >= Received(i)'.contact
      BY DEF TextAhead
    <2>2. i \in 1..n /\ Entered(i) /\ Received(i)' = Received(i)
          /\ Received(i).contact \in 1..Len(log)
      BY <1>3, <1>5, <1>6, <2>1
    <2>3. CASE j \in 0..n
      <3>1. j \in (i + 1)..n /\ Text(j) /\ NoteAt(j)' = NoteAt(j)
        BY <1>3, <2>1, <2>2, <2>3
      <3> QED
        BY <1>0, <2>2, <3>1 DEF NotesOnTheWay, TextAhead
    <2>4. CASE j > n
      <3>1. j \in 0..Len(toBridge')
        BY <1>2, <2>1, <2>2
      <3> QED
        BY <1>4, <1>6, <2>1, <2>2, <2>4, <3>1
    <2> QED
      BY <1>2, <2>1, <2>2, <2>3, <2>4
  <1>12. NotesKept'
    BY DEF NotesOnTheWay, NotesKept, Logged
  <1> QED
    BY <1>7, <1>8, <1>9, <1>10, <1>11, <1>12 DEF NotesOnTheWay

\* A contact that is saved takes the box with it, and the box is told empty.
LEMMA SavedNotes ==
  ASSUME TypeInv, NotesOnTheWay, NEW id \in Identity, SaveContact(id)
  PROVE  NotesOnTheWay'
  <1>0. PICK n \in Nat : n = Len(toBridge)
    BY DEF TypeInv, Typed, WireTyped
  <1> DEFINE ms == <<Enter(Len(log) + 1)>> \o (IF box = Blank THEN <<>> ELSE <<Update(Blank)>>)
  <1>1. /\ Len(log) + 1 \in Contact /\ Len(log') = Len(log) + 1 /\ Len(log) \in Nat
        /\ box' = Blank /\ UNCHANGED <<open, pending, state>>
        /\ log'[Len(log) + 1].note = box /\ \A c \in 1..Len(log) : log'[c] = log[c]
    <2>1. log \in Seq(Entry) /\ Len(log) < MaxContacts /\ Len(log) \in Nat
      BY LogFacts DEF SaveContact, TypeInv, Typed, LogTyped
    <2> QED
      BY <2>1, BridgeAssumption DEF SaveContact, Contact
  <1>2. /\ ms \in Seq(Message) /\ Len(ms) \in Nat \ {0} /\ ms[1] = Enter(Len(log) + 1)
        /\ \A k \in 1..Len(ms) : k = 1 \/ ms[k] = Update(Blank)
        /\ box # Blank => Len(ms) = 2
    <2>1. Enter(Len(log) + 1) \in Message /\ Update(Blank) \in Message
      BY <1>1, Messages
    <2>2. CASE box = Blank
      <3>1. ms = <<Enter(Len(log) + 1)>>
        BY <2>2
      <3> QED
        BY <2>1, <2>2, <3>1
    <2>3. CASE box # Blank
      <3>1. ms = <<Enter(Len(log) + 1)>> \o <<Update(Blank)>>
        BY <2>3
      <3>2. ms = <<Enter(Len(log) + 1), Update(Blank)>>
        BY <3>1, OneAndOne
      <3> QED
        BY <2>1, <3>2
    <2> QED
      BY <2>2, <2>3
  <1>3. /\ Len(toBridge') = (IF open THEN n + Len(ms) ELSE n)
        /\ \A i \in 1..n : toBridge'[i] = toBridge[i]
        /\ \A i \in 1..Len(toBridge') : i > n =>
             open /\ i - n \in 1..Len(ms) /\ toBridge'[i] = ms[i - n]
    <2>1. Tell(ms)
      BY <1>1 DEF SaveContact
    <2> HIDE DEF ms
    <2> QED
      BY <1>0, <1>2, <2>1, Sent DEF TypeInv, Typed, WireTyped
  <1> HIDE DEF ms
  <1>4. /\ \A j \in 0..n : (Text(j)' <=> Text(j)) /\ NoteAt(j)' = NoteAt(j)
        /\ \A j \in 1..n : (Entered(j)' <=> Entered(j)) /\ Received(j)' = Received(j)
        /\ \A j \in 0..n, i \in 0..(n + 1) : Cleared(j, i) => Cleared(j, i)'
    BY <1>1, <1>3, SaidBefore
  <1>5. ASSUME NEW i \in 1..Len(toBridge'), i > n
        PROVE  /\ open
               /\ i = n + 1 => Entered(i)' /\ Received(i)'.contact = Len(log) + 1 /\ ~Noted(i)'
               /\ i # n + 1 => ~Entered(i)' /\ Noted(i)' /\ NoteAt(i)' = Blank
    <2>1. open /\ i - n \in 1..Len(ms) /\ toBridge'[i] = ms[i - n] /\ i # 0
      BY <1>3, <1>5
    <2>2. i = n + 1 => toBridge'[i] = Enter(Len(log) + 1)
      <3>1. i = n + 1 => i - n = 1
        OBVIOUS
      <3> QED
        BY <1>2, <2>1, <3>1
    <2>3. i # n + 1 => toBridge'[i] = Update(Blank)
      <3>1. i # n + 1 => i - n # 1
        BY <1>5
      <3> QED
        BY <1>2, <2>1, <3>1
    <2> QED
      BY <1>1, <2>1, <2>2, <2>3 DEF Noted, NoteAt, Entered, Received, Enter, Update
  <1>6. ASSUME NEW j \in 0..Len(toBridge'), Text(j)'
        PROVE  j \in 0..n /\ Text(j) /\ NoteAt(j)' = NoteAt(j) /\ NoteAt(j) # Blank
    <2>1. ~(j > n)
      <3>1. ASSUME j > n PROVE FALSE
        <4>1. j \in 1..Len(toBridge')
          BY <3>1
        <4> QED
          BY <1>5, <1>6, <3>1, <4>1 DEF Text
      <3> QED
        BY <3>1
    <2>2. Len(toBridge') \in Nat
      BY <1>2, <1>3
    <2>3. j \in 0..n
      BY <2>1, <2>2
    <2> QED
      BY <1>4, <1>6, <2>3 DEF Text
  <1>7. /\ box \in {Blank, Len(log) + 1} /\ Blank = 0
        /\ \A i \in 1..n : Entered(i) => Received(i).contact \in 1..Len(log)
    BY <1>0, NoteFacts DEF TypeInv, EntersLogged
  <1>8. NotesKept'
    <2>1. SUFFICES ASSUME NEW c \in 1..(Len(log) + 1) PROVE log'[c].note \in {Blank, c}
      BY <1>1 DEF NotesKept, Logged
    <2>2. CASE c = Len(log) + 1
      BY <1>1, <1>7, <2>2
    <2>3. CASE c # Len(log) + 1
      BY <1>1, <2>3 DEF NotesOnTheWay, NotesKept, Logged
    <2> QED
      BY <2>2, <2>3
  <1>9. NotesTrue'
    <2>1. SUFFICES ASSUME NEW j \in 0..Len(toBridge'), Text(j)'
                   PROVE  NoteAt(j)' \in 1..Len(log') /\ log'[NoteAt(j)'].note = NoteAt(j)'
      BY DEF NotesTrue, Logged
    <2>2. j \in 0..n /\ Text(j) /\ NoteAt(j)' = NoteAt(j) /\ NoteAt(j) # Blank
      BY <1>6, <2>1
    <2>3. CASE NoteAt(j) = box
      BY <1>1, <1>7, <2>2, <2>3
    <2>4. CASE NoteAt(j) \in 1..Len(log) /\ log[NoteAt(j)].note = NoteAt(j)
      BY <1>1, <2>2, <2>4
    <2> QED
      BY <1>0, <2>2, <2>3, <2>4 DEF NotesOnTheWay, NotesTrue, Logged
  <1>10. OldTextCleared'
    <2>1. SUFFICES ASSUME NEW i \in 1..Len(toBridge'), Entered(i)', NEW j \in 0..(i - 1), Text(j)'
                   PROVE  NoteAt(j)' = log'[Received(i)'.contact].note \/ Cleared(j, i)'
      BY DEF OldTextCleared
    <2>2. Len(toBridge') \in Nat
      BY <1>2, <1>3
    <2>3. j \in 0..n /\ Text(j) /\ NoteAt(j)' = NoteAt(j) /\ NoteAt(j) # Blank
      BY <1>6, <2>1, <2>2
    <2>4. CASE i \in 1..n
      <3>1. Entered(i) /\ Received(i)' = Received(i) /\ Received(i).contact \in 1..Len(log)
        BY <1>4, <1>7, <2>1, <2>4
      <3>2. NoteAt(j) = log[Received(i).contact].note \/ Cleared(j, i)
        BY <1>0, <2>1, <2>3, <2>4, <3>1 DEF NotesOnTheWay, OldTextCleared
      <3>3. Cleared(j, i) => Cleared(j, i)'
        BY <1>4, <2>3, <2>4
      <3> QED
        BY <1>1, <2>3, <3>1, <3>2, <3>3
    <2>5. CASE i > n
      <3>1. open /\ i = n + 1 /\ Received(i)'.contact = Len(log) + 1
        BY <1>5, <2>1, <2>5
      <3>2. NoteAt(j) = box \/ Cleared(j, n + 1)
        BY <1>0, <2>3, <3>1 DEF NotesOnTheWay, BoxTold
      <3>3. Cleared(j, n + 1) => Cleared(j, n + 1)'
        BY <1>4, <2>3
      <3> QED
        BY <1>1, <2>3, <3>1, <3>2, <3>3
    <2> QED
      BY <2>1, <2>2, <2>4, <2>5
  <1>11. BoxTold'
    <2>1. SUFFICES ASSUME open, NEW j \in 0..Len(toBridge'), Text(j)'
                   PROVE  Cleared(j, Len(toBridge) + 1)'
      BY <1>1 DEF BoxTold
    <2>2. j \in 0..n /\ Text(j) /\ NoteAt(j)' = NoteAt(j) /\ NoteAt(j) # Blank
      BY <1>6, <2>1
    <2>3. NoteAt(j) = box \/ Cleared(j, n + 1)
      BY <1>0, <2>1, <2>2 DEF NotesOnTheWay, BoxTold
    <2>4. CASE NoteAt(j) = box
      <3>0. Len(ms) = 2 /\ open
        BY <1>2, <2>1, <2>2, <2>4
      <3>1. Len(toBridge') = n + 2 /\ n + 2 \in 1..Len(toBridge') /\ n + 2 > n /\ n + 2 # n + 1
        BY <1>3, <3>0
      <3>2. Noted(n + 2)' /\ NoteAt(n + 2)' = Blank
        BY <1>5, <3>1
      <3>3. n + 2 \in (j + 1)..((Len(toBridge') + 1) - 1)
        BY <2>2, <3>1
      <3> QED
        BY <3>2, <3>3 DEF Cleared
    <2>5. CASE Cleared(j, n + 1)
      <3>1. Cleared(j, n + 1)'
        BY <1>4, <2>2, <2>5
      <3>2. Len(toBridge') \in Nat /\ Len(toBridge') >= n
        BY <1>2, <1>3
      <3>3. PICK k \in (j + 1)..((n + 1) - 1) : Noted(k)' /\ NoteAt(k)' = Blank
        BY <3>1 DEF Cleared
      <3>4. k \in (j + 1)..((Len(toBridge') + 1) - 1)
        BY <2>2, <3>2, <3>3
      <3> QED
        BY <3>3, <3>4 DEF Cleared
    <2> QED
      BY <2>3, <2>4, <2>5
  <1>12. TextAheadOfPending'
    BY <1>0, <1>1, <1>6 DEF NotesOnTheWay, TextAheadOfPending
  <1>13. TextAhead'
    <2>1. SUFFICES ASSUME NEW i \in 1..Len(toBridge'), Entered(i)',
                          NEW j \in (i + 1)..Len(toBridge'), Text(j)'
                   PROVE  NoteAt(j)' >= Received(i)'.contact
      BY DEF TextAhead
    <2>2. Len(toBridge') \in Nat /\ j \in 0..Len(toBridge')
      BY <1>2, <1>3, <2>1
    <2>3. j \in 0..n /\ Text(j) /\ NoteAt(j)' = NoteAt(j)
      BY <1>6, <2>1, <2>2
    <2>4. i \in 1..n /\ Entered(i) /\ Received(i)' = Received(i) /\ j \in (i + 1)..n
      BY <1>4, <2>1, <2>2, <2>3
    <2> QED
      BY <1>0, <2>3, <2>4 DEF NotesOnTheWay, TextAhead
  <1> QED
    BY <1>8, <1>9, <1>10, <1>11, <1>12, <1>13 DEF NotesOnTheWay

\* Steps that leave the stream and what is known of the box alone.
LEMMA StillNotes ==
  ASSUME NotesOnTheWay, UNCHANGED <<log, box, toBridge, state>>, open' => open,
         pending' = pending \/ pending' = None
  PROVE  NotesOnTheWay'
  BY DEF NotesOnTheWay, NotesKept, NotesTrue, OldTextCleared, BoxTold, TextAheadOfPending,
     TextAhead, Logged, Text, Noted, NoteAt, Received, Entered, Cleared

\* A connection that begins or fails has nothing on its way.  What the cache
\* holds is still a text once typed.
LEMMA NothingNoted ==
  ASSUME TypeInv, NotesOnTheWay, toBridge' = <<>>, pending' = None, UNCHANGED <<log, box>>,
         state'.note = Blank \/ (~open' /\ state' = state)
  PROVE  NotesOnTheWay'
  <1>1. Len(toBridge') = 0 /\ Len(toBridge) \in Nat /\ 0 \in 0..Len(toBridge)
    BY EmptySeq DEF TypeInv, Typed, WireTyped
  <1>2. NotesTrue'
    <2>1. SUFFICES ASSUME Text(0)'
                   PROVE  \/ NoteAt(0)' = box
                          \/ NoteAt(0)' \in Logged /\ log[NoteAt(0)'].note = NoteAt(0)'
      BY <1>1 DEF NotesTrue, Logged
    <2>2. Text(0) /\ NoteAt(0)' = NoteAt(0)
      BY <2>1 DEF Text, NoteAt
    <2> QED
      BY <1>1, <2>2 DEF NotesOnTheWay, NotesTrue
  <1>3. BoxTold'
    <2>1. SUFFICES ASSUME open', Text(0)' PROVE FALSE
      BY <1>1 DEF BoxTold
    <2> QED
      BY <2>1 DEF Text, NoteAt
  <1>4. OldTextCleared' /\ TextAhead' /\ TextAheadOfPending' /\ NotesKept'
    BY <1>1 DEF NotesOnTheWay, OldTextCleared, TextAhead, TextAheadOfPending, NotesKept, Logged
  <1> QED
    BY <1>2, <1>3, <1>4 DEF NotesOnTheWay

\* Reading moves every position down by one; a box change read is what the
\* cache holds.
LEMMA ReadNotes ==
  ASSUME TypeInv, NotesOnTheWay, NEW type, Receive(type), UNCHANGED <<log, box, open>>,
         state'.note = IF type = "UPDATERESPONSE" THEN Head(toBridge).note ELSE state.note,
         \/ pending' = None
         \/ /\ type # "ENTEREVENT" /\ pending # None
            /\ pending'.contact = pending.contact
         \/ type = "ENTEREVENT" /\ pending'.contact = Head(toBridge).contact
  PROVE  NotesOnTheWay'
  <1>0. PICK n \in Nat : n = Len(toBridge')
    BY Shifted DEF TypeInv, Typed, WireTyped
  <1> DEFINE Was(j) == IF j = 0 /\ type # "UPDATERESPONSE" THEN 0 ELSE j + 1
  <1>1. /\ Len(toBridge) = n + 1 /\ Len(toBridge') = n
        /\ \A i \in 1..n : toBridge'[i] = toBridge[i + 1]
        /\ toBridge[1].type = type /\ Head(toBridge) = toBridge[1]
    BY <1>0, Shifted DEF TypeInv, Typed, WireTyped
  <1>2. \A i \in 1..n :
          /\ (Entered(i)' <=> Entered(i + 1)) /\ (Noted(i)' <=> Noted(i + 1))
          /\ Received(i)' = Received(i + 1) /\ NoteAt(i)' = NoteAt(i + 1)
    BY <1>1 DEF Entered, Noted, Received, NoteAt
  <1>3. ASSUME NEW j \in 0..n, Text(j)'
        PROVE  Was(j) \in 0..(n + 1) /\ Text(Was(j)) /\ NoteAt(j)' = NoteAt(Was(j))
               /\ Was(j) <= j + 1
    <2>1. CASE j # 0
      <3>1. j \in 1..n /\ j + 1 # 0 /\ Was(j) = j + 1
        BY <2>1
      <3> QED
        BY <1>2, <1>3, <3>1 DEF Text
    <2>2. CASE j = 0 /\ type = "UPDATERESPONSE"
      <3>1. Was(j) = 1 /\ Noted(1) /\ NoteAt(j)' = NoteAt(1)
        BY <1>1, <2>2 DEF Noted, Received, NoteAt
      <3>2. Was(j) \in 0..(n + 1)
        BY <3>1
      <3> QED
        BY <1>3, <2>2, <3>1, <3>2 DEF Text
    <2>3. CASE j = 0 /\ type # "UPDATERESPONSE"
      <3>1. Was(j) = 0 /\ NoteAt(j)' = NoteAt(0)
        BY <2>3 DEF NoteAt
      <3> QED
        BY <1>3, <2>3, <3>1 DEF Text
    <2> QED
      BY <2>1, <2>2, <2>3
  <1>4. ASSUME NEW j \in 0..n, NEW i \in 0..(n + 1), Cleared(Was(j), i + 1)
        PROVE  Cleared(j, i)'
    <2>1. PICK k \in (Was(j) + 1)..((i + 1) - 1) : Noted(k) /\ NoteAt(k) = Blank
      BY <1>4 DEF Cleared
    <2>2. k # 1 \/ (j = 0 /\ type # "UPDATERESPONSE")
      BY <2>1
    <2>3. k # 1
      BY <1>1, <2>1, <2>2 DEF Noted, Received
    <2>4. k - 1 \in (j + 1)..(i - 1)
      BY <2>1, <2>3
    <2>5. k - 1 \in 1..n /\ (k - 1) + 1 = k
      BY <2>4
    <2>6. Noted(k - 1)' /\ NoteAt(k - 1)' = Blank
      BY <1>2, <2>1, <2>5
    <2> QED
      BY <2>4, <2>6 DEF Cleared
  <1>5. NotesTrue'
    <2>1. SUFFICES ASSUME NEW j \in 0..n, Text(j)'
                   PROVE  \/ NoteAt(j)' = box
                          \/ NoteAt(j)' \in Logged /\ log[NoteAt(j)'].note = NoteAt(j)'
      BY <1>1 DEF NotesTrue, Logged
    <2>2. Was(j) \in 0..Len(toBridge) /\ Text(Was(j)) /\ NoteAt(j)' = NoteAt(Was(j))
      BY <1>1, <1>3, <2>1
    <2> HIDE DEF Was
    <2> QED
      BY <2>2 DEF NotesOnTheWay, NotesTrue
  <1>6. OldTextCleared'
    <2>1. SUFFICES ASSUME NEW i \in 1..n, Entered(i)', NEW j \in 0..(i - 1), Text(j)'
                   PROVE  NoteAt(j)' = log[Received(i)'.contact].note \/ Cleared(j, i)'
      BY <1>1 DEF OldTextCleared
    <2>2. j \in 0..n /\ i + 1 \in 1..Len(toBridge) /\ Entered(i + 1)
          /\ Received(i)' = Received(i + 1) /\ i \in 0..(n + 1)
      BY <1>1, <1>2, <2>1
    <2>3. Was(j) \in 0..((i + 1) - 1) /\ Text(Was(j)) /\ NoteAt(j)' = NoteAt(Was(j))
      BY <1>3, <2>1, <2>2
    <2> HIDE DEF Was
    <2>4. NoteAt(Was(j)) = log[Received(i + 1).contact].note \/ Cleared(Was(j), i + 1)
      BY <2>2, <2>3 DEF NotesOnTheWay, OldTextCleared
    <2> QED
      BY <1>4, <2>2, <2>3, <2>4
  <1>7. BoxTold'
    <2>1. SUFFICES ASSUME open, NEW j \in 0..n, Text(j)'
                   PROVE  NoteAt(j)' = box \/ Cleared(j, n + 1)'
      BY <1>1 DEF BoxTold
    <2>2. Was(j) \in 0..Len(toBridge) /\ Text(Was(j)) /\ NoteAt(j)' = NoteAt(Was(j))
      BY <1>1, <1>3, <2>1
    <2> HIDE DEF Was
    <2>3. NoteAt(Was(j)) = box \/ Cleared(Was(j), (n + 1) + 1)
      BY <1>1, <2>1, <2>2 DEF NotesOnTheWay, BoxTold
    <2> QED
      BY <1>4, <2>1, <2>2, <2>3
  <1>8. TextAhead'
    <2>1. SUFFICES ASSUME NEW i \in 1..n, Entered(i)', NEW j \in (i + 1)..n, Text(j)'
                   PROVE  NoteAt(j)' >= Received(i)'.contact
      BY <1>1 DEF TextAhead
    <2>2. j \in 0..n /\ j # 0 /\ i + 1 \in 1..Len(toBridge) /\ Entered(i + 1)
          /\ Received(i)' = Received(i + 1) /\ j + 1 \in ((i + 1) + 1)..Len(toBridge)
      BY <1>1, <1>2, <2>1
    <2>3. Text(j + 1) /\ NoteAt(j)' = NoteAt(j + 1)
      BY <1>3, <2>1, <2>2
    <2> QED
      BY <2>2, <2>3 DEF NotesOnTheWay, TextAhead
  <1>9. TextAheadOfPending'
    <2>1. SUFFICES ASSUME pending' # None, NEW j \in 0..n, Text(j)'
                   PROVE  NoteAt(j)' >= pending'.contact
      BY <1>1 DEF TextAheadOfPending
    <2>2. Was(j) \in 0..Len(toBridge) /\ Text(Was(j)) /\ NoteAt(j)' = NoteAt(Was(j))
      BY <1>1, <1>3, <2>1
    <2>3. CASE type # "ENTEREVENT" /\ pending # None /\ pending'.contact = pending.contact
      <3> HIDE DEF Was
      <3> QED
        BY <2>2, <2>3 DEF NotesOnTheWay, TextAheadOfPending
    <2>4. CASE type = "ENTEREVENT" /\ pending'.contact = Head(toBridge).contact
      <3>1. 1 \in 1..Len(toBridge) /\ Entered(1) /\ Received(1).contact = pending'.contact
        BY <1>1, <2>4 DEF Entered, Received
      <3>2. CASE j = 0
        <4>1. Was(j) = 0 /\ 0 \in 0..(1 - 1)
          BY <2>4, <3>2
        <4>2. NoteAt(0) = log[Received(1).contact].note \/ Cleared(0, 1)
          BY <2>2, <3>1, <4>1 DEF NotesOnTheWay, OldTextCleared
        <4>3. ~Cleared(0, 1)
          BY DEF Cleared
        <4>4. Received(1).contact \in Logged
          BY <3>1 DEF TypeInv, EntersLogged, Logged
        <4>5. NoteAt(0) \in {Blank, Received(1).contact} /\ NoteAt(0) # Blank
          BY <2>2, <4>1, <4>2, <4>3, <4>4 DEF NotesOnTheWay, NotesKept, Text
        <4>6. Received(1).contact \in Nat
          BY <4>4, NoteFacts
        <4> QED
          BY <2>2, <3>1, <4>1, <4>5, <4>6
      <3>3. CASE j # 0
        <4>1. Was(j) \in (1 + 1)..Len(toBridge)
          BY <1>1, <2>1, <3>3
        <4> HIDE DEF Was
        <4> QED
          BY <2>2, <3>1, <4>1 DEF NotesOnTheWay, TextAhead
      <3> QED
        BY <3>2, <3>3
    <2> QED
      BY <2>1, <2>3, <2>4
  <1>10. NotesKept'
    BY DEF NotesOnTheWay, NotesKept, Logged
  <1> QED
    BY <1>5, <1>6, <1>7, <1>8, <1>9, <1>10 DEF NotesOnTheWay

LEMMA AclogNotes ==
  ASSUME TypeInv, NoteInv, UseAclog \/ Answer \/ AnswerWithoutRecord \/ HangUp
  PROVE  NoteInv'
  <1>1. UNCHANGED <<pending, imported>> /\ \A c \in Logged : log'[c] = log[c]
    <2>1. log \in Seq(Entry) /\ \A c \in Logged : c \in 1..Len(log)
      BY DEF TypeInv, Typed, LogTyped, Logged
    <2>2. UNCHANGED <<pending, imported>>
      BY DEF UseAclog, Answer, AnswerWithoutRecord, HangUp, TypeNote, SaveContact,
         AmendContact, ChangeSetup, outcome
    <2>3. log' = log \/ \E e : log' = Append(log, e)
      BY DEF UseAclog, Answer, AnswerWithoutRecord, HangUp, TypeNote, SaveContact,
         AmendContact, ChangeSetup, aclog
    <2> QED
      BY <2>1, <2>2, <2>3
  <1>2. NeverAnEarlierNote' /\ (pending' # None => NoteOk(pending)')
    <2>1. NeverAnEarlierNote'
      BY <1>1, ImportedStay DEF NoteInv
    <2>2. pending # None => pending.contact \in Logged
      BY DEF TypeInv, Typed, ClientTyped, Held
    <2> QED
      BY <1>1, <2>1, <2>2 DEF NoteInv, NoteOk
  <1>3. Len(log) \in Nat /\ Logged \subseteq Contact /\ setup \in MaybeCall
    BY LogFacts DEF TypeInv
  <1>4. CASE TypeNote
    <2>1. Len(log) + 1 \in Contact /\ box' = Len(log) + 1
      BY <1>3, <1>4, BridgeAssumption DEF TypeNote, Contact
    <2>2. /\ Update(box') \in Message /\ Update(box').type = "UPDATERESPONSE"
          /\ Update(box').note = box' /\ Tell(<<Update(box')>>) /\ box = Blank
          /\ UNCHANGED <<log, open, state, pending>>
      BY <1>4, <2>1, Messages DEF TypeNote, Update
    <2> QED
      BY <1>2, <2>1, <2>2, ToldNotes DEF NoteInv
  <1>5. ASSUME NEW id \in Identity, SaveContact(id) PROVE NoteInv'
    BY <1>2, <1>5, SavedNotes DEF NoteInv
  <1>6. CASE Answer
    <2> DEFINE m == IF Head(toAclog) = "LIST" THEN ListReply(RecentContacts) ELSE Settings(setup)
    <2>1. /\ Tell(<<m>>) /\ UNCHANGED <<log, box, open, state, pending>>
      BY <1>6 DEF Answer, aclog
    <2>2. m \in Message /\ m.type # "ENTEREVENT" /\ m.type # "UPDATERESPONSE"
      <3>1. RecentContacts \in SUBSET Contact
        BY DEF RecentContacts
      <3> QED
        BY <1>3, <3>1, Messages DEF ListReply, Settings
    <2> HIDE DEF m
    <2> QED
      BY <1>2, <2>1, <2>2, ToldNotes DEF NoteInv
  <1>7. CASE \/ \E c \in Contact : AmendContact(c)
             \/ \E call \in SetupCall : ChangeSetup(call)
             \/ HangUp
    <2>1. UNCHANGED <<log, box, toBridge, state, pending>> /\ (open' => open)
      BY <1>7 DEF AmendContact, ChangeSetup, HangUp, aclog, wire
    <2> QED
      BY <1>2, <2>1, StillNotes DEF NoteInv
  <1>8. CASE AnswerWithoutRecord
    <2>1. Tell(<<NoRecords>>) /\ UNCHANGED <<log, box, open, state, pending>>
      BY <1>8 DEF AnswerWithoutRecord, aclog
    <2>2. PICK m \in Message : m = NoRecords /\ m.type = "NORECORDS"
      BY Messages
    <2> QED
      BY <1>2, <2>1, <2>2, ToldNotes DEF NoteInv
  <1> QED
    BY <1>4, <1>5, <1>6, <1>7, <1>8 DEF UseAclog

LEMMA ReadsNotes ==
  ASSUME TypeInv, NoteInv, ReadMessage
  PROVE  NoteInv'
  <1>1. UNCHANGED <<log, box, open, imported>>
    BY DEF ReadMessage, ReadUpdate, ReadSettings, ReadEnterEvent, ReadLateAnswer,
       ReadFullRecords, ReadNoRecords, aclog, outcome
  <1>2. NeverAnEarlierNote'
    BY <1>1, ImportedStay DEF NoteInv
  <1>3. toBridge \in Seq(Message) /\ state \in [setup : MaybeCall, note : Notes]
    BY DEF TypeInv, Typed, WireTyped, ClientTyped
  <1>4. CASE ReadUpdate \/ ReadSettings \/ ReadLateAnswer \/ ReadNoRecords
    <2>1. PICK type : /\ Receive(type) /\ pending' = pending /\ type # "ENTEREVENT"
                      /\ state'.note = IF type = "UPDATERESPONSE" THEN Head(toBridge).note
                                       ELSE state.note
      BY <1>3, <1>4 DEF ReadUpdate, ReadSettings, ReadLateAnswer, ReadNoRecords
    <2>2. NotesOnTheWay'
      BY <1>1, <2>1, ReadNotes DEF NoteInv
    <2> QED
      BY <1>1, <1>2, <2>1, <2>2 DEF NoteInv, NoteOk
  <1>5. ASSUME Text(0)
        PROVE  /\ Entered(1) /\ 1 <= Len(toBridge) => state.note = log[Received(1).contact].note
               /\ pending # None /\ log[pending.contact].note = Blank => state.note > pending.contact
    <2>1. 0 \in 0..Len(toBridge) /\ 0 \in 0..(1 - 1) /\ NoteAt(0) = state.note
          /\ NoteAt(0) \in Nat \ {0}
      BY <1>5, NoteFacts DEF NoteAt
    <2>2. ASSUME Entered(1), 1 <= Len(toBridge) PROVE state.note = log[Received(1).contact].note
      <3>1. 1 \in 1..Len(toBridge) /\ ~Cleared(0, 1)
        BY <2>2, NoteFacts DEF Cleared
      <3> QED
        BY <1>5, <2>1, <2>2, <3>1 DEF NoteInv, NotesOnTheWay, OldTextCleared
    <2>3. ASSUME pending # None, log[pending.contact].note = Blank
          PROVE  state.note > pending.contact
      <3>1. pending.contact \in Logged /\ pending.contact \in 1..Len(log)
        BY <2>3 DEF TypeInv, Typed, ClientTyped, Held, Logged
      <3>2. state.note >= pending.contact
        BY <1>5, <2>1, <2>3 DEF NoteInv, NotesOnTheWay, TextAheadOfPending
      <3>3. state.note = box \/ log[state.note].note = state.note
        BY <1>5, <2>1 DEF NoteInv, NotesOnTheWay, NotesTrue
      <3>4. state.note # pending.contact
        BY <2>1, <2>3, <3>1, <3>3, NoteFacts
      <3> QED
        BY <2>1, <3>1, <3>2, <3>4, NoteFacts
    <2> QED
      BY <2>2, <2>3
  <1>6. ASSUME ~Text(0) PROVE state.note = Blank
    BY <1>6 DEF Text, NoteAt
  <1>7. CASE ReadEnterEvent
    <2>1. PICK c : c = Head(toBridge).contact
      OBVIOUS
    <2>2. /\ Receive("ENTEREVENT") /\ state' = state
          /\ pending' = [contact |-> c, note |-> OrElse(log[c].note, state.note)]
      BY <1>7, <2>1 DEF ReadEnterEvent
    <2>3. NotesOnTheWay'
      BY <1>1, <2>1, <2>2, ReadNotes DEF NoteInv
    <2>4. Entered(1) /\ 1 <= Len(toBridge) /\ Received(1).contact = c
      BY <1>3, <2>1, <2>2, Shifted DEF Entered, Received
    <2>5. OrElse(log[c].note, state.note) = log[c].note
      BY <1>5, <1>6, <2>4 DEF OrElse
    <2>6. NoteOk(pending)'
      BY <1>1, <2>2, <2>5 DEF NoteOk
    <2> QED
      BY <1>2, <2>3, <2>6 DEF NoteInv
  <1>8. CASE ReadFullRecords
    <2>1. Receive("LISTRESPONSE") /\ pending # None /\ state' = state
      BY <1>8 DEF ReadFullRecords
    <2>2. PICK c, kept : pending = [contact |-> c, note |-> kept]
      BY <2>1, SettledFacts DEF TypeInv, Held
    <2>3. CASE pending' = None
      <3>1. NotesOnTheWay'
        BY <1>1, <2>1, <2>3, ReadNotes DEF NoteInv
      <3> QED
        BY <1>2, <2>3, <3>1 DEF NoteInv
    <2>4. CASE pending' # None
      <3>1. pending' = [contact |-> c, note |-> OrElse(log[c].note, OrElse(kept, state.note))]
        BY <1>8, <2>2, <2>4 DEF ReadFullRecords
      <3>2. NotesOnTheWay'
        BY <1>1, <2>1, <2>2, <3>1, ReadNotes DEF NoteInv
      <3>3. NoteOk(pending)
        BY <2>1 DEF NoteInv
      <3>4. kept # log[c].note => log[c].note = Blank /\ kept > c
        BY <2>2, <3>3 DEF NoteOk
      <3>5. state.note = Blank \/ (log[c].note = Blank => state.note > c)
        BY <1>5, <1>6, <2>1, <2>2
      <3>6. NoteOk(pending)'
        BY <1>1, <3>1, <3>4, <3>5 DEF NoteOk, OrElse
      <3> QED
        BY <1>2, <3>2, <3>6 DEF NoteInv
    <2> QED
      BY <2>3, <2>4
  <1> QED
    BY <1>4, <1>7, <1>8 DEF ReadMessage

LEMMA EndsNotes ==
  ASSUME TypeInv, NoteInv, Connect \/ RequestFullRecord \/ Import \/ ReadEndOfFile \/ Fail
  PROVE  NoteInv'
  <1>1. UNCHANGED <<log, box>>
    BY DEF Connect, RequestFullRecord, Import, ReadEndOfFile, Fail, aclog
  <1>2. CASE Import
    <2>1. /\ UNCHANGED <<toBridge, open, state>> /\ pending' = None /\ pending # None
          /\ imported' = imported \/ imported' = Append(imported, pending)
      BY <1>2 DEF Import, wire, TypeInv, Typed, ClientTyped
    <2>2. NotesOnTheWay'
      BY <1>1, <2>1, StillNotes DEF NoteInv
    <2>3. NeverAnEarlierNote'
      <3>1. CASE imported' = imported
        BY <1>1, <3>1, ImportedStay DEF NoteInv
      <3>2. CASE imported' = Append(imported, pending)
        <4>1. imported \in Seq(Held) /\ pending \in Held
          BY <2>1, SettledFacts DEF TypeInv, Typed, OutcomeTyped
        <4>2. DOMAIN imported' = 1..(Len(imported) + 1) /\ DOMAIN imported = 1..Len(imported)
              /\ Len(imported) \in Nat
          BY <3>2, <4>1
        <4>3. \A i \in DOMAIN imported' :
                imported'[i] = IF i = Len(imported) + 1 THEN pending ELSE imported[i]
          BY <3>2, <4>1, <4>2
        <4>4. \A i \in DOMAIN imported' : i = Len(imported) + 1 \/ i \in DOMAIN imported
          BY <4>2
        <4>5. NoteOk(pending) /\ \A i \in DOMAIN imported : NoteOk(imported[i])
          BY <2>1 DEF NoteInv, NeverAnEarlierNote, NoteOk
        <4>6. ASSUME NEW i \in DOMAIN imported' PROVE NoteOk(imported'[i])
          <5>1. CASE i = Len(imported) + 1
            BY <4>3, <4>5, <5>1
          <5>2. CASE i # Len(imported) + 1
            BY <4>3, <4>4, <4>5, <5>2
          <5> QED
            BY <5>1, <5>2
        <4> QED
          BY <1>1, <4>6 DEF NeverAnEarlierNote, NoteOk
      <3> QED
        BY <2>1, <3>1, <3>2
    <2> QED
      BY <2>1, <2>2, <2>3 DEF NoteInv
  <1>3. CASE RequestFullRecord \/ ReadEndOfFile
    <2>1. UNCHANGED <<toBridge, open, state, imported>> /\ (pending' = pending \/ pending' = None)
      BY <1>3 DEF RequestFullRecord, ReadEndOfFile, wire, outcome
    <2>2. NotesOnTheWay' /\ NeverAnEarlierNote'
      BY <1>1, <2>1, StillNotes, ImportedStay DEF NoteInv
    <2> QED
      BY <1>1, <2>1, <2>2 DEF NoteInv, NoteOk
  <1>4. CASE Connect \/ Fail
    <2>1. /\ toBridge' = <<>> /\ pending' = None /\ imported' = imported
          /\ state'.note = Blank \/ (~open' /\ state' = state)
      BY <1>4 DEF Connect, Fail, outcome
    <2>2. NotesOnTheWay' /\ NeverAnEarlierNote'
      BY <1>1, <2>1, NothingNoted, ImportedStay DEF NoteInv
    <2> QED
      BY <2>1, <2>2 DEF NoteInv
  <1> QED
    BY <1>2, <1>3, <1>4

LEMMA InitNotes == Init => NoteInv
  <1> SUFFICES ASSUME Init PROVE NoteInv
    OBVIOUS
  <1>1. /\ Len(toBridge) = 0 /\ Len(log) = 0 /\ ~open /\ state.note = Blank /\ pending = None
        /\ DOMAIN imported = {}
    BY DEF Init
  <1>2. ~Text(0)
    BY <1>1 DEF Text, NoteAt
  <1>3. NotesOnTheWay
    BY <1>1, <1>2 DEF NotesOnTheWay, NotesKept, NotesTrue, OldTextCleared, BoxTold,
       TextAheadOfPending, TextAhead, Logged
  <1> QED
    BY <1>1, <1>3 DEF NoteInv, NeverAnEarlierNote

LEMMA NoteStep == TypeInv /\ NoteInv /\ [Next]_vars => NoteInv'
  <1> SUFFICES ASSUME TypeInv, NoteInv, [Next]_vars PROVE NoteInv'
    OBVIOUS
  <1>1. CASE UNCHANGED vars
    <2>1. NotesOnTheWay' /\ NeverAnEarlierNote'
      BY <1>1, StillNotes, ImportedStay DEF vars, NoteInv
    <2> QED
      BY <1>1, <2>1 DEF vars, NoteInv, NoteOk
  <1> QED
    BY <1>1, AclogNotes, ReadsNotes, EndsNotes DEF Next, Run

\* Text typed for an earlier contact never reaches a later one: a contact is
\* imported with its own note, or where it has none with what was typed since
\* for a later contact.
THEOREM NotesAreNotStale == Spec => []NeverAnEarlierNote
  <1>1. NoteInv => NeverAnEarlierNote
    BY DEF NoteInv
  <1> QED
    BY InitTyped, TypeStep, InitNotes, NoteStep, <1>1, PTL DEF Spec

-----------------------------------------------------------------------------
(***************************************************************************)
(* What PendingIsSettled rests on: while a contact waits for its record    *)
(* over a live connection, the request for it, or an answer, is in flight, *)
(* or an answer without a record was read while it waited.  ACLog answers  *)
(* all it is asked, and the next answer with records that is read settles  *)
(* the contact.                                                            *)
(***************************************************************************)
Answers(i) == Received(i).type \in {"LISTRESPONSE", "NORECORDS"}
ListAsked == \E i \in 1..Len(toAclog) : toAclog[i] = "LIST"
AnswerInFlight == \E i \in 1..Len(toBridge) : Answers(i)

AnswerIsComing == pending # None /\ pc = "read" /\ open =>
  ListAsked \/ AnswerInFlight \/ pending.contact \in refused

LEMMA AnswersStay ==
  ASSUME TypeInv, NEW ms \in Seq(Message), Tell(ms), AnswerInFlight
  PROVE  AnswerInFlight'
  <1>1. PICK i \in 1..Len(toBridge) : Answers(i)
    BY DEF AnswerInFlight
  <1>2. i \in 1..Len(toBridge') /\ toBridge'[i] = toBridge[i]
    BY Sent DEF TypeInv, Typed, WireTyped
  <1> QED
    BY <1>1, <1>2 DEF AnswerInFlight, Answers, Received

LEMMA SendKeepsComing ==
  ASSUME TypeInv, AnswerIsComing, NEW ms \in Seq(Message), Tell(ms),
         UNCHANGED <<open, toAclog, pc, pending, refused>>
  PROVE  AnswerIsComing'
  BY AnswersStay DEF AnswerIsComing, ListAsked

\* A request moves up, or it is the one that is answered.
LEMMA AnswerKeepsComing ==
  ASSUME TypeInv, AnswerIsComing, Answer \/ AnswerWithoutRecord
  PROVE  AnswerIsComing'
  <1>1. /\ open /\ toAclog # <<>> /\ toAclog' = Tail(toAclog)
        /\ UNCHANGED <<open, pc, pending, refused>>
    BY DEF Answer, AnswerWithoutRecord, outcome
  <1>2. PICK m \in Message :
          /\ Tell(<<m>>)
          /\ Head(toAclog) = "LIST" => m.type \in {"LISTRESPONSE", "NORECORDS"}
    <2>1. RecentContacts \in SUBSET Contact /\ setup \in MaybeCall
      BY LogFacts DEF RecentContacts, TypeInv
    <2> QED
      BY <2>1, Messages DEF Answer, AnswerWithoutRecord, ListReply
  <1>3. <<m>> \in Seq(Message) /\ Len(<<m>>) = 1 /\ <<m>>[1] = m
    OBVIOUS
  <1> DEFINE ms == <<m>>
  <1> HIDE DEF ms
  <1>4. /\ ms \in Seq(Message) /\ Tell(ms) /\ Len(ms) = 1 /\ ms[1] = m
    BY <1>2, <1>3 DEF ms
  <1>5. CASE AnswerInFlight
    BY <1>1, <1>4, <1>5, AnswersStay DEF AnswerIsComing
  <1>6. CASE ListAsked /\ Head(toAclog) = "LIST"
    <2>1. PICK n \in Nat : n = Len(toBridge)
      BY DEF TypeInv, Typed, WireTyped
    <2>2. Len(toBridge') = n + 1
      BY <1>1, <1>4, <2>1, Sent DEF TypeInv, Typed, WireTyped
    <2>3. toBridge'[n + 1] = ms[(n + 1) - n]
      BY <1>4, <2>1, <2>2, Sent DEF TypeInv, Typed, WireTyped
    <2>4. toBridge'[n + 1].type \in {"LISTRESPONSE", "NORECORDS"} /\ n + 1 \in 1..Len(toBridge')
      BY <1>2, <1>4, <1>6, <2>2, <2>3
    <2>5. AnswerInFlight'
      BY <2>4 DEF AnswerInFlight, Answers, Received
    <2> QED
      BY <2>5 DEF AnswerIsComing
  <1>7. CASE ListAsked /\ Head(toAclog) # "LIST"
    <2>1. PICK i \in 1..Len(toAclog) : toAclog[i] = "LIST"
      BY <1>7 DEF ListAsked
    <2>2. /\ Len(toAclog) \in Nat /\ Head(toAclog) = toAclog[1]
          /\ Len(toAclog') = Len(toAclog) - 1
          /\ \A k \in 1..Len(toAclog') : toAclog'[k] = toAclog[k + 1]
      BY <1>1, HeadTailProperties DEF TypeInv, Typed, WireTyped
    <2>3. i - 1 \in 1..Len(toAclog') /\ toAclog'[i - 1] = "LIST"
      BY <1>7, <2>1, <2>2
    <2>4. ListAsked'
      BY <2>3 DEF ListAsked
    <2> QED
      BY <2>4 DEF AnswerIsComing
  <1>8. CASE ~(pending # None /\ pc = "read" /\ open) \/ pending.contact \in refused
    BY <1>1, <1>8 DEF AnswerIsComing
  <1> QED
    BY <1>5, <1>6, <1>7, <1>8 DEF AnswerIsComing

\* Reading anything but an answer leaves the answers where they are.
LEMMA ReadKeepsComing ==
  ASSUME TypeInv, AnswerIsComing, NEW type, type \notin {"LISTRESPONSE", "NORECORDS"},
         Receive(type), UNCHANGED <<open, toAclog, pc, pending, refused>>
  PROVE  AnswerIsComing'
  <1>1. CASE AnswerInFlight
    <2>1. PICK i \in 1..Len(toBridge) : Answers(i)
      BY <1>1 DEF AnswerInFlight
    <2>2. /\ Len(toBridge) \in Nat /\ Len(toBridge') = Len(toBridge) - 1
          /\ \A k \in 1..Len(toBridge') : toBridge'[k] = toBridge[k + 1]
          /\ toBridge[1].type = type
      BY Shifted DEF TypeInv, Typed, WireTyped
    <2>3. i - 1 \in 1..Len(toBridge') /\ toBridge'[i - 1] = toBridge[i]
      BY <2>1, <2>2 DEF Answers, Received
    <2>4. AnswerInFlight'
      BY <2>1, <2>3 DEF AnswerInFlight, Answers, Received
    <2> QED
      BY <2>4 DEF AnswerIsComing
  <1>2. CASE ~AnswerInFlight
    BY <1>2 DEF AnswerIsComing, ListAsked
  <1> QED
    BY <1>1, <1>2

LEMMA RequestKeepsComing ==
  ASSUME TypeInv, RequestFullRecord
  PROVE  AnswerIsComing'
  <1>1. open' = open /\ (open => toAclog' = Append(toAclog, "LIST"))
    BY DEF RequestFullRecord
  <1>2. CASE open
    <2>1. /\ Len(toAclog) \in Nat /\ Len(toAclog') = Len(toAclog) + 1
          /\ toAclog'[Len(toAclog) + 1] = "LIST"
      BY <1>1, <1>2, AppendProperties DEF TypeInv, Typed, WireTyped
    <2>2. PICK n \in Nat : n = Len(toAclog) + 1
      BY <2>1
    <2>3. n \in 1..Len(toAclog') /\ toAclog'[n] = "LIST"
      BY <2>1, <2>2
    <2>4. ListAsked'
      BY <2>3 DEF ListAsked
    <2> QED
      BY <2>4 DEF AnswerIsComing
  <1>3. CASE ~open
    BY <1>1, <1>3 DEF AnswerIsComing
  <1> QED
    BY <1>2, <1>3

LEMMA AnswerStep == TypeInv /\ AnswerIsComing /\ [Next]_vars => AnswerIsComing'
  <1> SUFFICES ASSUME TypeInv, AnswerIsComing, [Next]_vars PROVE AnswerIsComing'
    OBVIOUS
  <1>1. CASE UNCHANGED vars
    BY <1>1 DEF vars, AnswerIsComing, ListAsked, AnswerInFlight, Answers, Received
  <1>2. CASE TypeNote
    <2>1. box' \in Contact \cup {Blank}
      BY <1>2, LogFacts, BridgeAssumption DEF TypeNote, Contact, TypeInv
    <2>2. Update(box') \in Message
      BY <2>1, Messages
    <2>3. PICK m \in Message : m = Update(box')
      BY <2>2
    <2>4. Tell(<<m>>) /\ <<m>> \in Seq(Message)
      BY <1>2, <2>3 DEF TypeNote
    <2> QED
      BY <1>2, <2>4, SendKeepsComing DEF TypeNote
  <1>3. ASSUME NEW id \in Identity, SaveContact(id) PROVE AnswerIsComing'
    <2>1. PICK n \in Nat : n = Len(log')
      BY <1>3, LogFacts, AppendProperties DEF SaveContact, TypeInv
    <2>2. n \in Contact
      BY <1>3, <2>1, LogFacts, BridgeAssumption, AppendProperties DEF SaveContact, Contact, TypeInv
    <2>3. Enter(n) \in Message /\ Update(Blank) \in Message
      BY <2>2, Messages
    <2>4. PICK ms \in Seq(Message) :
            ms = <<Enter(n)>> \o (IF box = Blank THEN <<>> ELSE <<Update(Blank)>>)
      <3>1. PICK e \in Message, u \in Message : e = Enter(n) /\ u = Update(Blank)
        BY <2>3
      <3>2. <<e>> \in Seq(Message) /\ <<u>> \in Seq(Message) /\ <<>> \in Seq(Message)
        OBVIOUS
      <3>3. <<e>> \o (IF box = Blank THEN <<>> ELSE <<u>>) \in Seq(Message)
        BY <3>2, ConcatProperties
      <3> QED
        BY <3>1, <3>3
    <2>5. Tell(ms)
      BY <1>3, <2>1, <2>4 DEF SaveContact
    <2> QED
      BY <1>3, <2>5, SendKeepsComing DEF SaveContact
  <1>4. ASSUME (\E c \in Contact : AmendContact(c)) \/ (\E call \in SetupCall : ChangeSetup(call))
        PROVE  AnswerIsComing'
    <2>1. UNCHANGED <<open, toAclog, toBridge, pc, pending, refused>>
      BY <1>4 DEF AmendContact, ChangeSetup, wire, outcome
    <2> QED
      BY <2>1 DEF AnswerIsComing, ListAsked, AnswerInFlight, Answers, Received
  <1>5. CASE ReadUpdate \/ ReadSettings
    BY <1>5, ReadKeepsComing DEF ReadUpdate, ReadSettings, outcome
  <1>6. CASE ReadEnterEvent \/ ReadLateAnswer \/ ReadFullRecords
    BY <1>6 DEF ReadEnterEvent, ReadLateAnswer, ReadFullRecords, Receive, AnswerIsComing
  <1>7. CASE ReadNoRecords
    BY <1>7 DEF ReadNoRecords, AnswerIsComing
  <1>8. CASE HangUp \/ Connect \/ Import \/ ReadEndOfFile \/ Fail
    BY <1>8 DEF HangUp, Connect, Import, ReadEndOfFile, Fail, AnswerIsComing
  <1> QED
    BY <1>1, <1>2, <1>3, <1>4, <1>5, <1>6, <1>7, <1>8, AnswerKeepsComing, RequestKeepsComing
    DEF Next, Run, ReadMessage, UseAclog

\* A contact never waits for an answer nobody was asked for, however
\* announcements, answers and hang-ups interleave, unless an answer without a
\* record, which the client does not take for one, came while it waited.
THEOREM PendingIsAnswered == Spec => []AnswerIsComing
  <1>1. Init => AnswerIsComing
    BY DEF Init, AnswerIsComing
  <1> QED
    BY InitTyped, TypeStep, <1>1, AnswerStep, PTL DEF Spec

=============================================================================
