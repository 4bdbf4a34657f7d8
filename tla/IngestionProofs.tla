--------------------------- MODULE IngestionProofs ---------------------------
(***************************************************************************)
(* Theorems about the ingestion of a league.                               *)
(*                                                                         *)
(* LiveIngestion: a worker that has stored a change owes the league two    *)
(* things, statistics that count the change and, if the matchup is final,  *)
(* its announcement.  The invariant says who owes what until it is paid,   *)
(* or died with its worker.                                                *)
(*                                                                         *)
(* HistoricalImport: what an import has in mind is in the database, and so *)
(* is what the checkpoint lists, whoever wrote it, unless it is mixed.     *)
(* Behind both is that seasons are imported newest first: what is done has *)
(* no gaps below the newest one, so that its oldest stands for all of it.  *)
(***************************************************************************)
EXTENDS LiveIngestion, HistoricalImport, FiniteSetTheorems, WellFoundedInduction, TLAPS

(* Part I: live ingestion *)

\* The worker x stored a change of m and its statistics are still to come.
Ahead(x, m) ==
  \/ x.pc \in {"load", "facts"} /\ m \in x.changed
  \/ x.pc = "write" /\ m \in x.changed /\ x.computed[m] = FinalContent[m]

\* The ingest x is to announce what m is final with.
Hears(x, m) ==
  \/ x.pc = "load" /\ m \in x.changed
  \/ x.pc \in {"facts", "write", "send"} /\ <<m, row[m].hash>> \in x.news

\* FactsFollow says as much of any worker that read the content; the one that owes the
\* statistics is one that changed the matchup, and its death is counted in `behind`.
FactsAhead ==
  \A m \in Matchups \ behind :
    facts[m] = FinalContent[m] \/ \E w \in Workers : Ahead(work[w], m)

AnnouncedOrHeard ==
  \A m \in Matchups \ unheard :
    FinalContent[m] # None =>
      <<m, row[m].hash>> \in announced \/ \E j \in Ingests : Hears(work[j], m)

\* Only matchups that are stored were corrected, so an ingest that is to keep a column
\* has read its value.
EditedIsStored ==
  \A m \in Matchups, f \in Fields : edited[m][f] # None => row[m] # None
KeptIsRead ==
  \A w \in Workers : work[w].pc = "upsert" =>
    \A m \in Matchups : work[w].sticky[m] # {} => work[w].existing[m] # None

\* A computation counts only final matchups, which stay final until it writes.
ComputedFinal ==
  \A w \in Workers : work[w].pc = "write" =>
    \A m \in Matchups : work[w].computed[m] # None => FinalContent[m] # None

\* An ingest has news of the matchups it changed.
NewsOfChanged ==
  \A j \in Ingests : work[j].pc \in {"facts", "write", "send"} =>
    work[j].news \subseteq work[j].changed \X Contents

IInv ==
  /\ TypeOK /\ EditedIsStored /\ KeptIsRead /\ ComputedFinal /\ NewsOfChanged
  /\ FactsAreFinal /\ FactsAhead /\ AnnouncedOrHeard

\* The variables that only have a type.
outside == <<truth, accepted, stored, connected, plays>>
OutsideOK ==
  /\ truth \in [Matchups -> Contents]
  /\ accepted \in (1 .. MaxKeys) \cup {None} /\ stored \in 1 .. MaxKeys /\ connected \in BOOLEAN
  /\ plays \in Nat

-----------------------------------------------------------------------------
(* Workers and rows *)

LEMMA Assumed ==
  ASSUME LiveAssumption
  PROVE  /\ MaxKeys \in Nat /\ 1 <= MaxKeys
         /\ None \notin Values /\ None \notin [Fields -> Values] /\ None \notin Row
         /\ Corrections \subseteq Values
         /\ \A j \in Ingests : j \notin Stewards
BY DEF LiveAssumption

\* What a worker carries at each of its steps.
LEMMA WorkShape ==
  ASSUME NEW x \in WorkTypes
  PROVE  /\ x.pc \in {"idle", "fetch", "read", "upsert", "load", "facts", "write", "send"}
         /\ x.pc \in {"read", "upsert"} => x.answer \in [Matchups -> Contents]
         /\ x.pc = "upsert" =>
              /\ x.sticky \in [Matchups -> SUBSET Fields]
              /\ x.existing \in [Matchups -> [Fields -> Values] \cup {None}]
              /\ x.finals \subseteq Matchups
         /\ x.pc \in {"load", "facts", "write", "send"} => x.changed \subseteq Matchups
         /\ x.pc \in {"write", "send"} => x.news \subseteq Matchups \X Contents
         /\ x.pc = "write" => x.computed \in [Matchups -> [Fields -> Values] \cup {None}]
BY DEF WorkTypes

\* A row is final exactly if it has final content.
LEMMA FinalRow ==
  ASSUME LiveAssumption, TypeOK, NEW m \in Matchups
  PROVE  /\ FinalContent[m] # None <=> (row[m] # None /\ row[m].status = "final")
         /\ FinalContent[m] # None => FinalContent[m] = row[m].value
         /\ row[m] # None => row[m] \in Row
BY Assumed DEF TypeOK, FinalContent, Row

LEMMA FinalType ==
  ASSUME LiveAssumption, TypeOK
  PROVE  FinalContent \in [Matchups -> [Fields -> Values] \cup {None}]
BY DEF TypeOK, FinalContent, Row

LEMMA IdleWork == Idle \in WorkTypes /\ Idle.pc = "idle"
BY DEF Idle, WorkTypes

\* A step of one worker that changes nothing but what the worker knows.
LEMMA WorkerAlone ==
  ASSUME LiveAssumption, IInv, OutsideOK', NEW w \in Workers, NEW x \in WorkTypes,
         work' = [work EXCEPT ![w] = x],
         UNCHANGED <<row, edited, notes, edits, facts, announced, failed, unheard, behind>>,
         x.pc = "upsert" => \A m \in Matchups : x.sticky[m] # {} => x.existing[m] # None,
         x.pc = "write" => \A m \in Matchups : x.computed[m] # None => FinalContent[m] # None,
         w \in Ingests /\ x.pc \in {"facts", "write", "send"} =>
           x.news \subseteq x.changed \X Contents,
         \A m \in Matchups : Ahead(work[w], m) => Ahead(x, m) \/ facts[m] = FinalContent[m],
         w \in Ingests => \A m \in Matchups :
           Hears(work[w], m) /\ FinalContent[m] # None => Hears(x, m)
  PROVE  IInv'
<1>1. /\ work' \in [Workers -> WorkTypes] /\ work'[w] = x
      /\ \A v \in Workers : v # w => work'[v] = work[v]
      /\ FinalContent' = FinalContent
  BY DEF IInv, TypeOK, FinalContent
<1>2. TypeOK'  BY <1>1 DEF IInv, TypeOK, OutsideOK
<1>3. EditedIsStored' /\ FactsAreFinal'
  BY <1>1 DEF IInv, EditedIsStored, FactsAreFinal
<1>4. KeptIsRead'  BY <1>1 DEF IInv, KeptIsRead
<1>5. ComputedFinal'  BY <1>1 DEF IInv, ComputedFinal
<1>6. NewsOfChanged'  BY <1>1 DEF IInv, NewsOfChanged, Workers
<1>7. FactsAhead'
  <2>. SUFFICES ASSUME NEW m \in Matchups \ behind, facts[m] # FinalContent[m]
                PROVE  \E v \in Workers : Ahead(work[v], m)'
    BY <1>1 DEF FactsAhead
  <2>1. PICK v \in Workers : Ahead(work[v], m)  BY DEF IInv, FactsAhead
  <2>2. Ahead(work'[v], m)  BY <1>1, <2>1
  <2>. QED  BY <1>1, <2>2 DEF Ahead
<1>8. AnnouncedOrHeard'
  <2>. SUFFICES ASSUME NEW m \in Matchups \ unheard, FinalContent[m] # None,
                       <<m, row[m].hash>> \notin announced
                PROVE  \E j \in Ingests : Hears(work[j], m)'
    BY <1>1 DEF AnnouncedOrHeard
  <2>1. PICK j \in Ingests : Hears(work[j], m)  BY DEF IInv, AnnouncedOrHeard
  <2>2. Hears(work'[j], m)  BY <1>1, <2>1 DEF Workers
  <2>. QED  BY <2>2 DEF Hears
<1>. QED  BY <1>2, <1>3, <1>4, <1>5, <1>6, <1>7, <1>8 DEF IInv

-----------------------------------------------------------------------------
(* Steps of the world and of ingests that store nothing *)

LEMMA Outside ==
  ASSUME LiveAssumption, IInv,
         Expire \/ Reconnect \/ \E m \in Matchups : Play(m)
  PROVE  IInv'
<1>1. OutsideOK'
  <2>1. CASE Expire  BY <2>1 DEF Expire, IInv, TypeOK, OutsideOK, credential
  <2>2. CASE Reconnect
    BY <2>2, Assumed DEF Reconnect, IInv, TypeOK, OutsideOK
  <2>3. CASE \E m \in Matchups : Play(m)
    BY <2>3 DEF Play, IInv, TypeOK, OutsideOK, credential
  <2>. QED  BY <2>1, <2>2, <2>3
<1>2. UNCHANGED <<row, edited, notes, edits, facts, announced, work, failed, unheard, behind>>
  BY DEF Expire, Reconnect, Play, rows
<1>3. FinalContent' = FinalContent  BY <1>2 DEF FinalContent
<1>4. TypeOK'  BY <1>1, <1>2 DEF IInv, TypeOK, OutsideOK
<1>5. /\ EditedIsStored' /\ KeptIsRead' /\ ComputedFinal' /\ NewsOfChanged'
      /\ FactsAreFinal'
  BY <1>2, <1>3
     DEF IInv, EditedIsStored, KeptIsRead, ComputedFinal, NewsOfChanged, FactsAreFinal
<1>6. FactsAhead'  BY <1>2, <1>3 DEF IInv, FactsAhead, Ahead
<1>7. AnnouncedOrHeard'  BY <1>2, <1>3 DEF IInv, AnnouncedOrHeard, Hears
<1>. QED  BY <1>4, <1>5, <1>6, <1>7 DEF IInv

LEMMA StoresNothing ==
  ASSUME LiveAssumption, IInv, NEW j \in Ingests,
         Start(j) \/ Refused(j) \/ Fetch(j) \/ Read(j) \/ Load(j)
  PROVE  IInv'
<1>0. /\ j \in Workers /\ work[j] \in WorkTypes /\ TypeOK
      /\ row \in [Matchups -> Row \cup {None}]
  BY DEF IInv, TypeOK, Workers
<1>1. /\ OutsideOK'
      /\ UNCHANGED <<row, edited, notes, edits, facts, announced, failed, unheard, behind>>
  BY <1>0 DEF Start, Refused, Fetch, Read, Load, TypeOK, OutsideOK, provider, credential, rows
<1>2. CASE Start(j)
  <2>. DEFINE x == [pc |-> "fetch", key |-> stored]
  <2>1. x \in WorkTypes /\ x.pc = "fetch"  BY <1>0 DEF WorkTypes, TypeOK
  <2>2. work' = [work EXCEPT ![j] = x] /\ work[j].pc = "idle"
    BY <1>2, IdleWork DEF Start
  <2>3. \A m \in Matchups : ~Ahead(work[j], m) /\ ~Hears(work[j], m)
    BY <2>2 DEF Ahead, Hears
  <2>. HIDE DEF x
  <2>. QED  BY <1>0, <1>1, <2>1, <2>2, <2>3, WorkerAlone
<1>3. CASE Refused(j)
  <2>1. work' = [work EXCEPT ![j] = Idle] /\ work[j].pc = "fetch"  BY <1>3 DEF Refused
  <2>2. \A m \in Matchups : ~Ahead(work[j], m) /\ ~Hears(work[j], m)
    BY <2>1 DEF Ahead, Hears
  <2>. QED  BY <1>0, <1>1, <2>1, <2>2, IdleWork, WorkerAlone
<1>4. CASE Fetch(j)
  <2>. DEFINE x == [pc |-> "read", answer |-> truth]
  <2>1. x \in WorkTypes /\ x.pc = "read"  BY <1>0 DEF WorkTypes, TypeOK
  <2>2. work' = [work EXCEPT ![j] = x] /\ work[j].pc = "fetch"  BY <1>4 DEF Fetch
  <2>3. \A m \in Matchups : ~Ahead(work[j], m) /\ ~Hears(work[j], m)
    BY <2>2 DEF Ahead, Hears
  <2>. HIDE DEF x
  <2>. QED  BY <1>0, <1>1, <2>1, <2>2, <2>3, WorkerAlone
<1>5. CASE Read(j)
  <2>. DEFINE x == [pc |-> "upsert", answer |-> work[j].answer,
                    sticky |-> [m \in Matchups |-> Sticky(m)],
                    existing |-> [m \in Matchups |->
                                    IF Sticky(m) = {} THEN None ELSE row[m].value],
                    finals |-> {m \in Matchups : FinalContent[m] # None}]
  <2>1. work[j].pc = "read" /\ work' = [work EXCEPT ![j] = x]
    BY <1>0, <1>5 DEF Read, TypeOK
  <2>2. \A m \in Matchups : Sticky(m) # {} => row[m] \in Row /\ row[m].value # None
    BY <1>0, Assumed DEF Sticky, IInv, EditedIsStored, Row
  <2>3. x.answer \in [Matchups -> Contents]  BY <1>0, <2>1, WorkShape
  <2>4. x.existing \in [Matchups -> [Fields -> Values] \cup {None}]  BY <2>2 DEF Row
  <2>5. x.sticky \in [Matchups -> SUBSET Fields]  BY DEF Sticky
  <2>6. x \in WorkTypes  BY <2>3, <2>4, <2>5 DEF WorkTypes
  <2>7. /\ x.pc = "upsert"
        /\ \A m \in Matchups : x.sticky[m] # {} => x.existing[m] # None
    BY <2>2
  <2>8. \A m \in Matchups : ~Ahead(work[j], m) /\ ~Hears(work[j], m)
    BY <2>1 DEF Ahead, Hears
  <2>. HIDE DEF x
  <2>. QED  BY <1>0, <1>1, <2>1, <2>6, <2>7, <2>8, WorkerAlone
<1>6. CASE Load(j)
  <2>. DEFINE news == {<<m, row[m].hash>> : m \in {n \in work[j].changed :
                                                     FinalContent[n] # None}}
              x == [pc |-> "facts", changed |-> work[j].changed, news |-> news]
  <2>1. /\ work[j].pc = "load" /\ work' = [work EXCEPT ![j] = x]
        /\ work[j].changed \subseteq Matchups
    BY <1>0, <1>6, WorkShape DEF Load, TypeOK
  <2>2. news \subseteq work[j].changed \X Contents
    BY <1>0, <2>1, FinalRow DEF Row
  <2>3. x \in WorkTypes /\ x.pc = "facts" /\ x.news \subseteq x.changed \X Contents
    BY <2>1, <2>2 DEF WorkTypes
  <2>4. \A m \in Matchups : Ahead(work[j], m) => Ahead(x, m)
    BY <2>1 DEF Ahead
  <2>5. \A m \in Matchups : Hears(work[j], m) /\ FinalContent[m] # None => Hears(x, m)
    BY <2>1 DEF Hears
  <2>. HIDE DEF x
  <2>. QED  BY <1>0, <1>1, <2>1, <2>3, <2>4, <2>5, WorkerAlone
<1>. QED  BY <1>2, <1>3, <1>4, <1>5, <1>6

-----------------------------------------------------------------------------
(* Steps of a computation *)

\* What a worker with a computation behind it is left with.
LEMMA ComputedShape ==
  ASSUME LiveAssumption, IInv, NEW w \in Workers, work[w].pc \in {"facts", "write"}
  PROVE  /\ News(w) \subseteq work[w].changed \X Contents
         /\ w \in Ingests => News(w) = work[w].news
         /\ Computed(w) \in WorkTypes
         /\ Computed(w).pc \in {"send", "idle"}
         /\ w \in Ingests => Computed(w).pc = "send" /\ Computed(w).news = News(w)
                             /\ Computed(w).changed = work[w].changed
<1>1. work[w] \in WorkTypes /\ work[w].changed \subseteq Matchups
  BY WorkShape DEF IInv, TypeOK
<1>2. /\ News(w) \subseteq work[w].changed \X Contents
      /\ w \in Ingests => News(w) = work[w].news
  BY DEF News, IInv, NewsOfChanged
<1>3. News(w) \subseteq Matchups \X Contents  BY <1>1, <1>2
<1>4. CASE w \in Ingests
  <2>. DEFINE x == [pc |-> "send", changed |-> work[w].changed, news |-> News(w)]
  <2>1. x \in WorkTypes  BY <1>1, <1>3 DEF WorkTypes
  <2>2. Computed(w) = x  BY <1>4 DEF Computed
  <2>. QED  BY <1>2, <2>1, <2>2
<1>5. CASE w \notin Ingests  BY <1>2, <1>5, IdleWork DEF Computed
<1>. QED  BY <1>4, <1>5

LEMMA Reading ==
  ASSUME LiveAssumption, IInv, NEW w \in Workers, ReadFacts(w)
  PROVE  IInv'
<1>0. /\ TypeOK /\ work[w] \in WorkTypes /\ work[w].pc = "facts"
      /\ work[w].changed \subseteq Matchups
  BY WorkShape DEF IInv, TypeOK, ReadFacts
<1>1. /\ OutsideOK'
      /\ UNCHANGED <<row, edited, notes, edits, facts, announced, failed, unheard, behind>>
  BY <1>0 DEF ReadFacts, TypeOK, OutsideOK, provider, credential, rows
<1>2. \A m \in Matchups : Hears(work[w], m) <=> <<m, row[m].hash>> \in work[w].news
  BY <1>0 DEF Hears
<1>3. CASE \A m \in work[w].changed : FinalContent[m] = None
  <2>. DEFINE x == Computed(w)
  <2>1. work' = [work EXCEPT ![w] = x]  BY <1>0, <1>3 DEF ReadFacts, TypeOK
  <2>2. /\ x \in WorkTypes /\ x.pc \in {"send", "idle"}
        /\ w \in Ingests => x.pc = "send" /\ x.news = work[w].news
                            /\ x.news \subseteq x.changed \X Contents
    BY <1>0, ComputedShape
  <2>3. \A m \in Matchups : Ahead(work[w], m) => facts[m] = FinalContent[m]
    BY <1>0, <1>3, FinalRow DEF Ahead, IInv, FactsAreFinal
  <2>4. w \in Ingests => \A m \in Matchups : Hears(work[w], m) => Hears(x, m)
    BY <1>2, <2>2 DEF Hears
  <2>. HIDE DEF x
  <2>5. (w \in Ingests /\ x.pc \in {"facts", "write", "send"}) =>
          x.news \subseteq x.changed \X Contents
    BY <2>2
  <2>. QED  BY <1>0, <1>1, <2>1, <2>2, <2>3, <2>4, <2>5, WorkerAlone
<1>4. CASE ~\A m \in work[w].changed : FinalContent[m] = None
  <2>. DEFINE x == [pc |-> "write", changed |-> work[w].changed, news |-> News(w),
                    computed |-> FinalContent]
  <2>1. work' = [work EXCEPT ![w] = x]  BY <1>0, <1>4 DEF ReadFacts, TypeOK
  <2>2. /\ News(w) \subseteq work[w].changed \X Contents
        /\ w \in Ingests => News(w) = work[w].news
    BY <1>0, ComputedShape
  <2>3. News(w) \subseteq Matchups \X Contents  BY <1>0, <2>2
  <2>4. x \in WorkTypes /\ x.pc = "write" /\ x.news \subseteq x.changed \X Contents
    BY <1>0, <2>2, <2>3, FinalType DEF WorkTypes
  <2>5. \A m \in Matchups : Ahead(work[w], m) => Ahead(x, m)
    BY <1>0 DEF Ahead
  <2>6. w \in Ingests => \A m \in Matchups : Hears(work[w], m) => Hears(x, m)
    BY <1>2, <2>2 DEF Hears
  <2>7. \A m \in Matchups : x.computed[m] # None => FinalContent[m] # None
    OBVIOUS
  <2>. HIDE DEF x
  <2>. QED  BY <1>0, <1>1, <2>1, <2>4, <2>5, <2>6, <2>7, WorkerAlone
<1>. QED  BY <1>3, <1>4

\* The statistics become what the worker read, and whoever is behind is behind.
LEMMA Writing ==
  ASSUME LiveAssumption, IInv, NEW w \in Workers, WriteFacts(w)
  PROVE  IInv'
<1>. DEFINE x == Computed(w)
<1>0. /\ TypeOK /\ work[w] \in WorkTypes /\ work[w].pc = "write"
      /\ work[w].changed \subseteq Matchups
      /\ work[w].computed \in [Matchups -> [Fields -> Values] \cup {None}]
  BY WorkShape DEF IInv, TypeOK, WriteFacts
<1>1. /\ facts' = work[w].computed
      /\ work' = [work EXCEPT ![w] = x]
      /\ UNCHANGED <<truth, accepted, stored, connected, plays, row, edited, notes, edits,
                     announced, failed, unheard>>
      /\ behind' = {m \in Matchups : facts'[m] # FinalContent[m]}
  BY DEF WriteFacts, provider, credential, rows
<1>2. /\ x \in WorkTypes /\ x.pc \in {"send", "idle"}
      /\ w \in Ingests => x.pc = "send" /\ x.news = work[w].news
                          /\ x.news \subseteq x.changed \X Contents
  BY <1>0, ComputedShape
<1>. HIDE DEF x
<1>3. /\ work' \in [Workers -> WorkTypes] /\ work'[w] = x
      /\ \A v \in Workers : v # w => work'[v] = work[v]
      /\ FinalContent' = FinalContent
  BY <1>0, <1>1, <1>2 DEF TypeOK, FinalContent
<1>4. TypeOK'  BY <1>0, <1>1, <1>3 DEF TypeOK
<1>5. EditedIsStored' /\ KeptIsRead' /\ ComputedFinal'
  BY <1>1, <1>2, <1>3 DEF IInv, EditedIsStored, KeptIsRead, ComputedFinal
<1>6. NewsOfChanged'  BY <1>2, <1>3 DEF IInv, NewsOfChanged, Workers
<1>7. FactsAreFinal'  BY <1>0, <1>1, <1>3 DEF IInv, ComputedFinal, FactsAreFinal
<1>8. FactsAhead'  BY <1>1, <1>3 DEF FactsAhead
<1>9. AnnouncedOrHeard'
  <2>. SUFFICES ASSUME NEW m \in Matchups \ unheard, FinalContent[m] # None,
                       <<m, row[m].hash>> \notin announced
                PROVE  \E j \in Ingests : Hears(work[j], m)'
    BY <1>1, <1>3 DEF AnnouncedOrHeard
  <2>1. PICK j \in Ingests : Hears(work[j], m)  BY DEF IInv, AnnouncedOrHeard
  <2>2. Hears(work'[j], m)  BY <1>0, <1>2, <1>3, <2>1 DEF Workers, Hears
  <2>. QED  BY <1>1, <2>2 DEF Hears
<1>. QED  BY <1>4, <1>5, <1>6, <1>7, <1>8, <1>9 DEF IInv

\* The news of an ingest is sent; a worker that comes to its end owes no statistics.
LEMMA Announcing ==
  ASSUME LiveAssumption, IInv, NEW j \in Ingests, Announce(j)
  PROVE  IInv'
<1>0. /\ TypeOK /\ j \in Workers /\ work[j] \in WorkTypes /\ work[j].pc = "send"
      /\ work[j].news \subseteq Matchups \X Contents
  BY WorkShape DEF IInv, TypeOK, Announce, Workers
<1>1. /\ announced' = announced \cup work[j].news
      /\ work' = [work EXCEPT ![j] = Idle]
      /\ UNCHANGED <<truth, accepted, stored, connected, plays, row, edited, notes, edits,
                     facts, failed, unheard, behind>>
  BY DEF Announce, provider, credential, rows
<1>2. /\ work' \in [Workers -> WorkTypes] /\ work'[j] = Idle
      /\ \A v \in Workers : v # j => work'[v] = work[v]
      /\ FinalContent' = FinalContent
  BY <1>0, <1>1, IdleWork DEF TypeOK, FinalContent
<1>3. TypeOK'  BY <1>0, <1>1, <1>2 DEF TypeOK
<1>4. /\ EditedIsStored' /\ KeptIsRead' /\ ComputedFinal' /\ NewsOfChanged'
      /\ FactsAreFinal'
  BY <1>1, <1>2, IdleWork
     DEF IInv, EditedIsStored, KeptIsRead, ComputedFinal, NewsOfChanged, FactsAreFinal, Workers
<1>5. FactsAhead'
  <2>. SUFFICES ASSUME NEW m \in Matchups \ behind, facts[m] # FinalContent[m]
                PROVE  \E v \in Workers : Ahead(work[v], m)'
    BY <1>1, <1>2 DEF FactsAhead
  <2>1. PICK v \in Workers : Ahead(work[v], m)  BY DEF IInv, FactsAhead
  <2>2. v # j  BY <1>0, <2>1 DEF Ahead
  <2>. QED  BY <1>2, <2>1, <2>2 DEF Ahead
<1>6. AnnouncedOrHeard'
  <2>. SUFFICES ASSUME NEW m \in Matchups \ unheard, FinalContent[m] # None,
                       <<m, row[m].hash>> \notin announced'
                PROVE  \E k \in Ingests : Hears(work[k], m)'
    BY <1>1, <1>2 DEF AnnouncedOrHeard
  <2>1. PICK k \in Ingests : Hears(work[k], m)  BY <1>1 DEF IInv, AnnouncedOrHeard
  <2>2. k # j  BY <1>0, <1>1, <2>1 DEF Hears
  <2>. QED  BY <1>1, <1>2, <2>1, <2>2 DEF Hears, Workers
<1>. QED  BY <1>3, <1>4, <1>5, <1>6 DEF IInv

-----------------------------------------------------------------------------
(* Steps that store a matchup, and deaths *)

\* What an ingest stores is a row, whatever it kept of the one before.
LEMMA IncomingRow ==
  ASSUME LiveAssumption, IInv, NEW j \in Ingests, work[j].pc = "upsert", NEW m \in Matchups
  PROVE  Incoming(j, m) \in Contents
<1>1. /\ work[j].answer[m] \in Contents
      /\ work[j].sticky[m] \subseteq Fields
      /\ work[j].sticky[m] # {} => work[j].existing[m] \in [Fields -> Values]
  BY WorkShape DEF IInv, TypeOK, KeptIsRead, Workers
<1>. QED  BY <1>1 DEF Incoming, Contents

LEMMA Storing ==
  ASSUME LiveAssumption, IInv, NEW j \in Ingests, Upsert(j)
  PROVE  IInv'
<1>. DEFINE changed == Changes(j)
            x == IF changed = {} THEN Idle ELSE [pc |-> "load", changed |-> changed]
            stored2(m) == [status |-> Incoming(j, m).status, value |-> Incoming(j, m).value,
                           hash |-> Incoming(j, m)]
<1>0. /\ TypeOK /\ j \in Workers /\ work[j] \in WorkTypes /\ work[j].pc = "upsert"
      /\ work[j].finals \subseteq Matchups
      /\ changed \subseteq Matchups
  BY WorkShape DEF IInv, TypeOK, Upsert, Workers, Changes
<1>1. /\ row' = [m \in Matchups |-> IF m \in changed THEN stored2(m) ELSE row[m]]
      /\ notes' = notes \cup Noted(j)
      /\ work' = [work EXCEPT ![j] = x]
      /\ unheard' = unheard \ changed /\ behind' = behind \ changed
      /\ UNCHANGED <<truth, accepted, stored, connected, plays, edited, edits, facts,
                     announced, failed>>
  BY DEF Upsert, provider, credential
<1>2. /\ x \in WorkTypes /\ x.pc \in {"idle", "load"}
      /\ \A m \in changed : x.pc = "load" /\ m \in x.changed
  BY <1>0, IdleWork DEF WorkTypes
<1>3. \A m \in Matchups : stored2(m) \in Row  BY <1>0, IncomingRow DEF Row, Contents
<1>4. \A m \in changed : FinalContent[m] # None => stored2(m).status = "final"
  BY <1>0, <1>3, FinalRow DEF Changes, Row
<1>5. \A m \in Matchups : /\ m \notin changed => row'[m] = row[m]
                          /\ m \in changed => row'[m] = stored2(m)
  BY <1>1
<1>6. Noted(j) \subseteq {"regression", "conflict"} \X Matchups  BY <1>0 DEF Noted
<1>. HIDE DEF x, changed, stored2
<1>7. /\ work' \in [Workers -> WorkTypes] /\ work'[j] = x
      /\ \A v \in Workers : v # j => work'[v] = work[v]
  BY <1>0, <1>1, <1>2 DEF TypeOK
<1>8. row' \in [Matchups -> Row \cup {None}]  BY <1>0, <1>1, <1>3 DEF TypeOK
<1>9. TypeOK'  BY <1>0, <1>1, <1>6, <1>7, <1>8 DEF TypeOK
<1>10. \A m \in Matchups : /\ m \notin changed => FinalContent'[m] = FinalContent[m]
                           /\ FinalContent[m] # None => FinalContent'[m] # None
  <2>. TAKE m \in Matchups
  <2>1. CASE m \notin changed  BY <1>5, <2>1 DEF FinalContent
  <2>2. CASE m \in changed
    <3>1. row'[m] = stored2(m) /\ stored2(m) \in Row  BY <1>3, <1>5, <2>2
    <3>2. row'[m] # None => (FinalContent'[m] = IF row'[m].status = "final"
                                                THEN row'[m].value ELSE None)
      BY DEF FinalContent
    <3>3. row'[m].value # None  BY <3>1, Assumed DEF Row
    <3>4. row'[m] # None  BY <3>1, Assumed
    <3>. QED  BY <1>4, <2>2, <3>1, <3>2, <3>3, <3>4
  <2>. QED  BY <2>1, <2>2
<1>11. \A m \in changed : row'[m] # None  BY <1>0, <1>3, <1>5, Assumed
<1>12. EditedIsStored'
  BY <1>1, <1>5, <1>11 DEF IInv, EditedIsStored
<1>13. KeptIsRead'  BY <1>2, <1>7 DEF IInv, KeptIsRead
<1>14. ComputedFinal'  BY <1>2, <1>7, <1>10 DEF IInv, ComputedFinal
<1>15. NewsOfChanged'  BY <1>2, <1>7 DEF IInv, NewsOfChanged, Workers
<1>16. FactsAreFinal'  BY <1>1, <1>10 DEF IInv, FactsAreFinal
<1>17. FactsAhead'
  <2>. SUFFICES ASSUME NEW m \in Matchups \ behind', facts[m] # FinalContent'[m]
                PROVE  \E v \in Workers : Ahead(work[v], m)'
    BY <1>1 DEF FactsAhead
  <2>1. CASE m \in changed  BY <1>0, <1>2, <1>7, <2>1 DEF Ahead
  <2>2. CASE m \notin changed
    <3>1. m \notin behind /\ facts[m] # FinalContent[m] /\ FinalContent'[m] = FinalContent[m]
      BY <1>1, <1>10, <2>2
    <3>2. PICK v \in Workers : Ahead(work[v], m)  BY <3>1 DEF IInv, FactsAhead
    <3>3. v # j  BY <1>0, <3>2 DEF Ahead
    <3>. QED  BY <1>7, <3>1, <3>2, <3>3 DEF Ahead
  <2>. QED  BY <2>1, <2>2
<1>18. AnnouncedOrHeard'
  <2>. SUFFICES ASSUME NEW m \in Matchups \ unheard', FinalContent'[m] # None,
                       <<m, row'[m].hash>> \notin announced
                PROVE  \E k \in Ingests : Hears(work[k], m)'
    BY <1>1 DEF AnnouncedOrHeard
  <2>1. CASE m \in changed  BY <1>2, <1>7, <2>1, <1>0 DEF Hears
  <2>2. CASE m \notin changed
    <3>1. /\ m \in Matchups \ unheard /\ FinalContent[m] # None /\ row'[m] = row[m]
          /\ <<m, row[m].hash>> \notin announced
      BY <1>1, <1>5, <1>10, <2>2
    <3>2. PICK k \in Ingests : Hears(work[k], m)  BY <3>1 DEF IInv, AnnouncedOrHeard
    <3>3. k # j /\ k \in Workers  BY <1>0, <3>2 DEF Hears, Workers
    <3>. QED  BY <1>7, <3>1, <3>2, <3>3 DEF Hears
  <2>. QED  BY <2>1, <2>2
<1>. QED  BY <1>9, <1>12, <1>13, <1>14, <1>15, <1>16, <1>17, <1>18 DEF IInv

\* A steward corrects a row that is stored: whether it is final and what was announced
\* of it stay, and its statistics are the steward's to compute.
LEMMA Editing ==
  ASSUME LiveAssumption, IInv, NEW s \in Stewards, NEW m \in Matchups, Edit(s, m)
  PROVE  IInv'
<1>. DEFINE x == [pc |-> "facts", changed |-> {m}]
<1>0. /\ TypeOK /\ s \in Workers /\ s \notin Ingests /\ row[m] \in Row
      /\ work[s].pc = "idle" /\ work' = [work EXCEPT ![s] = x]
      /\ behind' = behind \ {m}
      /\ edits \in Nat /\ edits' = edits + 1
      /\ UNCHANGED <<truth, accepted, stored, connected, plays, notes, facts, announced,
                     failed, unheard>>
  BY Assumed, IdleWork DEF IInv, TypeOK, Edit, Workers, provider, credential
<1>1. PICK f \in Fields, v \in Corrections :
        /\ row' = [row EXCEPT ![m].value[f] = v]
        /\ edited' = [edited EXCEPT ![m][f] = v]
  BY DEF Edit
<1>2. /\ x \in WorkTypes /\ x.pc = "facts" /\ m \in x.changed  BY DEF WorkTypes
<1>. HIDE DEF x
<1>3. /\ work' \in [Workers -> WorkTypes] /\ work'[s] = x
      /\ \A w \in Workers : w # s => work'[w] = work[w]
  BY <1>0, <1>2 DEF TypeOK
<1>4. /\ row' \in [Matchups -> Row \cup {None}] /\ row'[m] \in Row
      /\ row'[m].status = row[m].status /\ row'[m].hash = row[m].hash
      /\ \A n \in Matchups : n # m => row'[n] = row[n]
  <2>1. /\ row'[m] = [row[m] EXCEPT !.value = [row[m].value EXCEPT ![f] = v]]
        /\ \A n \in Matchups : n # m => row'[n] = row[n]
        /\ row' \in [Matchups -> {row'[n] : n \in Matchups}]
    BY <1>0, <1>1 DEF TypeOK
  <2>2. [row[m].value EXCEPT ![f] = v] \in [Fields -> Values]
    BY <1>0, <1>1, Assumed DEF Row
  <2>3. row'[m] \in Row /\ row'[m].status = row[m].status /\ row'[m].hash = row[m].hash
    BY <1>0, <2>1, <2>2 DEF Row
  <2>. QED  BY <1>0, <2>1, <2>3 DEF TypeOK
<1>5. /\ edited' \in [Matchups -> [Fields -> Values \cup {None}]]
      /\ \A n \in Matchups : n # m => edited'[n] = edited[n]
  BY <1>0, <1>1, Assumed DEF TypeOK
<1>6. TypeOK'  BY <1>0, <1>3, <1>4, <1>5 DEF TypeOK
<1>7. \A n \in Matchups : /\ n # m => FinalContent'[n] = FinalContent[n]
                          /\ FinalContent'[n] # None <=> FinalContent[n] # None
  <2>1. \A n \in Matchups : n # m => FinalContent'[n] = FinalContent[n]
    BY <1>4 DEF FinalContent
  <2>2. row[m] # None /\ row'[m] # None /\ row[m].value # None /\ row'[m].value # None
    BY <1>0, <1>4, Assumed DEF Row
  <2>3. FinalContent'[m] # None <=> FinalContent[m] # None
    BY <1>4, <2>2 DEF FinalContent
  <2>. QED  BY <2>1, <2>3
<1>8. EditedIsStored'
  BY <1>4, <1>5, Assumed DEF IInv, EditedIsStored
<1>9. KeptIsRead' /\ ComputedFinal'
  BY <1>2, <1>3, <1>7 DEF IInv, KeptIsRead, ComputedFinal
<1>10. NewsOfChanged'  BY <1>0, <1>3 DEF IInv, NewsOfChanged, Workers
<1>11. FactsAreFinal'  BY <1>0, <1>7 DEF IInv, FactsAreFinal
<1>12. FactsAhead'
  <2>. SUFFICES ASSUME NEW n \in Matchups \ behind', facts[n] # FinalContent'[n]
                PROVE  \E w \in Workers : Ahead(work[w], n)'
    BY <1>0 DEF FactsAhead
  <2>1. CASE n = m  BY <1>0, <1>2, <1>3, <2>1 DEF Ahead
  <2>2. CASE n # m
    <3>1. n \notin behind /\ facts[n] # FinalContent[n] /\ FinalContent'[n] = FinalContent[n]
      BY <1>0, <1>7, <2>2
    <3>2. PICK w \in Workers : Ahead(work[w], n)  BY <3>1 DEF IInv, FactsAhead
    <3>3. w # s  BY <1>0, <3>2 DEF Ahead
    <3>. QED  BY <1>3, <3>1, <3>2, <3>3 DEF Ahead
  <2>. QED  BY <2>1, <2>2
<1>13. AnnouncedOrHeard'
  <2>. SUFFICES ASSUME NEW n \in Matchups \ unheard, FinalContent[n] # None,
                       <<n, row[n].hash>> \notin announced
                PROVE  \E j \in Ingests : Hears(work[j], n)'
    BY <1>0, <1>4, <1>7 DEF AnnouncedOrHeard
  <2>1. PICK j \in Ingests : Hears(work[j], n)  BY DEF IInv, AnnouncedOrHeard
  <2>2. work'[j] = work[j] /\ row'[n].hash = row[n].hash  BY <1>0, <1>3, <1>4 DEF Workers
  <2>. QED  BY <2>1, <2>2 DEF Hears
<1>. QED  BY <1>6, <1>8, <1>9, <1>10, <1>11, <1>12, <1>13 DEF IInv

\* What a worker owed when it died is written down as owed.
LEMMA Dying ==
  ASSUME LiveAssumption, IInv, NEW w \in Workers, Fail(w)
  PROVE  IInv'
<1>0. /\ TypeOK /\ work[w] \in WorkTypes
      /\ work[w].pc \in {"load", "facts", "write", "send"} => work[w].changed \subseteq Matchups
  BY WorkShape DEF IInv, TypeOK
<1>1. /\ work' = [work EXCEPT ![w] = Idle]
      /\ failed' = failed + 1
      /\ unheard' = IF w \in Ingests /\ work[w].pc \in {"load", "facts", "write", "send"}
                    THEN unheard \cup work[w].changed ELSE unheard
      /\ behind' = IF work[w].pc \in {"load", "facts", "write"}
                   THEN behind \cup work[w].changed ELSE behind
      /\ UNCHANGED <<truth, accepted, stored, connected, plays, row, edited, notes, edits,
                     facts, announced>>
  BY DEF Fail, provider, credential, rows
<1>2. /\ work' \in [Workers -> WorkTypes] /\ work'[w] = Idle
      /\ \A v \in Workers : v # w => work'[v] = work[v]
      /\ FinalContent' = FinalContent
  BY <1>0, <1>1, IdleWork DEF TypeOK, FinalContent
<1>3. TypeOK'  BY <1>0, <1>1, <1>2 DEF TypeOK
<1>4. /\ EditedIsStored' /\ KeptIsRead' /\ ComputedFinal' /\ NewsOfChanged'
      /\ FactsAreFinal'
  BY <1>1, <1>2, IdleWork
     DEF IInv, EditedIsStored, KeptIsRead, ComputedFinal, NewsOfChanged, FactsAreFinal, Workers
<1>5. FactsAhead'
  <2>. SUFFICES ASSUME NEW m \in Matchups \ behind', facts[m] # FinalContent[m]
                PROVE  \E v \in Workers : Ahead(work[v], m)'
    BY <1>1, <1>2 DEF FactsAhead
  <2>1. PICK v \in Workers : Ahead(work[v], m)  BY <1>1 DEF IInv, FactsAhead
  <2>2. v # w  BY <1>1, <2>1 DEF Ahead
  <2>. QED  BY <1>2, <2>1, <2>2 DEF Ahead
<1>6. AnnouncedOrHeard'
  <2>. SUFFICES ASSUME NEW m \in Matchups \ unheard', FinalContent[m] # None,
                       <<m, row[m].hash>> \notin announced
                PROVE  \E k \in Ingests : Hears(work[k], m)'
    BY <1>1, <1>2 DEF AnnouncedOrHeard
  <2>1. PICK k \in Ingests : Hears(work[k], m)  BY <1>1 DEF IInv, AnnouncedOrHeard
  <2>2. k # w  BY <1>1, <2>1 DEF Hears, IInv, NewsOfChanged
  <2>. QED  BY <1>1, <1>2, <2>1, <2>2 DEF Hears, Workers
<1>. QED  BY <1>3, <1>4, <1>5, <1>6 DEF IInv

-----------------------------------------------------------------------------
(* Theorems *)

LEMMA Initially ==
  ASSUME LiveAssumption, Init
  PROVE  IInv
<1>1. TypeOK
  <2>1. truth \in [Matchups -> Contents]  BY DEF Init, Contents
  <2>2. work \in [Workers -> WorkTypes]  BY IdleWork DEF Init
  <2>. QED  BY <2>1, <2>2, Assumed DEF Init, TypeOK
<1>2. \A w \in Workers : work[w].pc = "idle"  BY IdleWork DEF Init
<1>3. FinalContent = facts  BY DEF Init, FinalContent
<1>. QED
  BY <1>1, <1>2, <1>3
     DEF Init, IInv, EditedIsStored, KeptIsRead, ComputedFinal, NewsOfChanged, FactsAreFinal,
         FactsAhead, AnnouncedOrHeard, Workers

LEMMA Steps ==
  ASSUME LiveAssumption, IInv, [Next]_vars
  PROVE  IInv'
<1>1. CASE Expire \/ Reconnect \/ \E m \in Matchups : Play(m)  BY <1>1, Outside
<1>2. ASSUME NEW j \in Ingests, Ingest(j) PROVE IInv'
  <2>1. CASE Start(j) \/ Refused(j) \/ Fetch(j) \/ Read(j) \/ Load(j)  BY <2>1, StoresNothing
  <2>2. CASE Upsert(j)  BY <2>2, Storing
  <2>3. CASE Compute(j)  BY <2>3, Reading, Writing DEF Compute, Workers
  <2>4. CASE Announce(j)  BY <2>4, Announcing
  <2>. QED  BY <1>2, <2>1, <2>2, <2>3, <2>4 DEF Ingest
<1>3. ASSUME NEW s \in Stewards, Compute(s) \/ \E m \in Matchups : Edit(s, m) PROVE IInv'
  <2>1. CASE Compute(s)  BY <2>1, Reading, Writing DEF Compute, Workers
  <2>2. CASE \E m \in Matchups : Edit(s, m)  BY <2>2, Editing
  <2>. QED  BY <1>3, <2>1, <2>2
<1>4. ASSUME NEW w \in Workers, Fail(w) PROVE IInv'  BY <1>4, Dying
<1>5. CASE UNCHANGED vars
  <2>1. /\ UNCHANGED <<truth, accepted, stored, connected, plays, row, edited, notes, edits,
                       facts, announced, work, failed, unheard, behind>>
        /\ FinalContent' = FinalContent
    BY <1>5 DEF vars, provider, credential, rows, FinalContent
  <2>2. TypeOK'  BY <2>1 DEF IInv, TypeOK
  <2>. QED
    BY <2>1, <2>2
       DEF IInv, EditedIsStored, KeptIsRead, ComputedFinal, NewsOfChanged, FactsAreFinal,
           FactsAhead, AnnouncedOrHeard, Ahead, Hears
<1>. QED  BY <1>1, <1>2, <1>3, <1>4, <1>5 DEF Next

\* IInv is inductive, whatever the matchups, the ingests and the bounds are.
THEOREM InductiveInvariant == Spec => []IInv
<1>1. Init => IInv  BY LiveAssumption, Initially
<1>2. IInv /\ [Next]_vars => IInv'  BY LiveAssumption, Steps
<1>. QED  BY <1>1, <1>2, PTL DEF Spec

\* Every variable has its type (fantasy_matchups, persist.ts, statistics-refresh.ts).
THEOREM TypeCorrect == Spec => []TypeOK
<1>1. IInv => TypeOK  BY DEF IInv
<1>. QED  BY <1>1, InductiveInvariant, PTL

\* The statistics never count a game that is not over: an older computation that writes
\* last has still counted only matchups that were, and so are, final.
THEOREM StatisticsCountFinals == Spec => []FactsAreFinal
<1>1. IInv => FactsAreFinal  BY DEF IInv
<1>. QED  BY <1>1, InductiveInvariant, PTL

\* A final matchup whose statistics are not its own has a computation ahead of it.
THEOREM StatisticsFollow == Spec => []FactsFollow
<1>1. IInv => FactsFollow  BY DEF IInv, FactsAhead, Ahead, FactsFollow
<1>. QED  BY <1>1, InductiveInvariant, PTL

\* The content a matchup is final with is announced or about to be, corrections too,
\* unless the ingest that stored it died.
THEOREM FinalsAreAnnounced == Spec => []FinalIsAnnounced
<1>1. IInv => FinalIsAnnounced
  BY DEF IInv, AnnouncedOrHeard, Hears, FinalIsAnnounced
<1>. QED  BY <1>1, InductiveInvariant, PTL

\* No step but an ingest's replaces a value set by hand, and that ingest had read the row
\* before the value was set (preserveStickyMatchupEdits).
LEMMA OnlyLateReadsReplace ==
  ASSUME LiveAssumption, IInv, [Next]_vars
  PROVE  \A m \in Matchups, f \in Fields :
           (edited[m][f] # None /\ edits' = edits /\ row'[m].value[f] # row[m].value[f])
             => \E j \in Ingests :
                  /\ work[j].pc = "upsert"
                  /\ f \notin work[j].sticky[m] \/ work[j].existing[m][f] # row[m].value[f]
<1>. SUFFICES ASSUME NEW m \in Matchups, NEW f \in Fields, edits' = edits,
                     row'[m].value[f] # row[m].value[f]
              PROVE  \E j \in Ingests :
                       /\ work[j].pc = "upsert"
                       /\ f \notin work[j].sticky[m] \/ work[j].existing[m][f] # row[m].value[f]
  OBVIOUS
<1>1. ~\E s \in Stewards, n \in Matchups : Edit(s, n)
  <2>1. edits \in Nat  BY DEF IInv, TypeOK
  <2>. QED  BY <2>1 DEF Edit
<1>2. PICK j \in Ingests : Upsert(j)
  BY <1>1 DEF Next, Ingest, Compute, vars, rows, Expire, Reconnect, Play, Start, Refused, Fetch,
              Read, Load, ReadFacts, WriteFacts, Announce, Fail
<1>3. row'[m] = [status |-> Incoming(j, m).status, value |-> Incoming(j, m).value,
                 hash |-> Incoming(j, m)]
  BY <1>2 DEF Upsert
<1>4. f \in work[j].sticky[m] => row'[m].value[f] = work[j].existing[m][f]
  BY <1>3 DEF Incoming
<1>. QED  BY <1>2, <1>4 DEF Upsert

\* An ingest replaces a value set by hand only if it was set after that ingest read which
\* columns to keep.
THEOREM EditsReplacedByLateReads == Spec => EditsOutliveReads
<1>1. IInv /\ [Next]_vars =>
        [\A m \in Matchups, f \in Fields :
           (edited[m][f] # None /\ edits' = edits /\ row'[m].value[f] # row[m].value[f])
             => \E j \in Ingests :
                  /\ work[j].pc = "upsert"
                  /\ f \notin work[j].sticky[m] \/ work[j].existing[m][f] # row[m].value[f]]_vars
  BY LiveAssumption, OnlyLateReadsReplace
<1>. QED  BY <1>1, InductiveInvariant, PTL DEF Spec, EditsOutliveReads

-----------------------------------------------------------------------------
(* Part II: the import of past seasons *)

\* No season is left out that is newer than one of S and no newer than top.
Deep(S, top) == \A s \in S : s <= top /\ \A t \in Seasons : s <= t /\ t <= top => t \in S

\* The seasons from top down to low.
Down(top, low) == {s \in Seasons : low <= s /\ s <= top}

\* Covered, with the seasons the provider has and those that are in the database.
CoveredBy(seasons, has, held) ==
  \A s \in seasons : s \in held \/ \E e \in seasons \ has : s <= e

\* What the checkpoint c says of the league's history is so, if it is not mixed.
CheckpointTrue(c, has, held) == ~c.mixed =>
  /\ c.completed \subseteq held /\ Deep(c.completed, c.start)
  /\ c.last # 0 => Down(c.start, c.last) \subseteq held
  /\ c.status = "completed" => CoveredBy(c.asked, has, held)
  /\ c.exhausted # 0 => c.exhausted \notin has /\ c.exhausted <= c.start

\* What an import q has in mind is so, if it is from no mixed checkpoint.
ImportTrue(q, has, held, c) ==
  /\ q.seasons \in Requests \cup {{}}
  /\ q.pc # "idle" => q.seasons # {}
  /\ ~q.mixed => q.done \subseteq held /\ Deep(q.done, Max(q.seasons))
  /\ q.pc \in {"bundle", "imported", "empty"} => q.seasons \ q.done # {}
  /\ q.pc = "bundle" => Max(q.seasons \ q.done) \in has
  /\ q.pc = "imported" => Max(q.seasons \ q.done) \in held
  /\ q.pc = "empty" => Max(q.seasons \ q.done) \notin has
  /\ q.pc = "opening" /\ q.reuse => c # NoCheckpoint
  /\ q.pc \in AtWork \ {"begun", "opening"} => c # NoCheckpoint
  /\ q.pc = "answered" /\ ~q.mixed => CoveredBy(q.seasons, has, held)

HistoryInv ==
  /\ HistoryTypeOK
  /\ checkpoint # NoCheckpoint => CheckpointTrue(checkpoint, exposed, imported)
  /\ \A i \in Imports : ImportTrue(import[i], exposed, imported, checkpoint)

\* An import that resumes, or has written the checkpoint, has in mind what is listed
\* there of its seasons, but for what it has missed (m).
Resumed(q, c, m) ==
  /\ c # NoCheckpoint /\ q.pc \in AtWork \ {"begun"}
  /\ q.pc = "opening" => ~q.force /\ c.start = Max(q.seasons)
  => c.completed \cap q.seasons \subseteq q.done \cup m

ResumeInv == \A i \in Imports : Resumed(import[i], checkpoint, missed[i])

LEMMA HistoryConstants ==
  /\ IsFiniteSet(Seasons) /\ \A s \in Seasons : s \in Nat /\ s > 0
  /\ \A R \in Requests : R \subseteq Seasons /\ R # {}
  /\ \A R \in Requests : \A s, t \in R, x \in Seasons : s <= x /\ x <= t => x \in R
  /\ MaxRequests \in Nat /\ MaxTries \in Nat \ {0} /\ MaxTrouble \in Nat
  /\ NoCheckpoint \notin Checkpoint
BY SeasonsAssumption, RangesAssumption, BoundsAssumption, NoCheckpointAssumption

\* A finite set of numbers has a least and a greatest member.
LEMMA Extremes ==
  ASSUME NEW S, IsFiniteSet(S), S \subseteq Nat, S # {}
  PROVE  /\ \E x \in S : \A y \in S : x <= y
         /\ \E x \in S : \A y \in S : x >= y
<1>. DEFINE R == StrictSubsetOrdering(S)
<1>1. IsWellFoundedOn(R, FiniteSubsetsOf(S))  BY FS_StrictSubsetOrderingWellFounded
<1>2. \A T : T \subseteq S => T \in FiniteSubsetsOf(S)  BY FS_Subset DEF FiniteSubsetsOf
<1>3. \E x \in S : \A y \in S : x <= y
  <2>. DEFINE Below(x) == {t \in S : t < x}
              Parts == {Below(x) : x \in S}
  <2>1. Parts \subseteq FiniteSubsetsOf(S) /\ Parts # {}  BY <1>2
  <2>2. \E p \in Parts : \A q \in Parts : <<q, p>> \notin R
    <3>. HIDE DEF Parts, R
    <3>. QED  BY <1>1, <2>1, WFMin
  <2>. PICK p \in Parts : \A q \in Parts : <<q, p>> \notin R  BY <2>2
  <2>. PICK x \in S : p = Below(x)  OBVIOUS
  <2>3. \A y \in S : <<Below(y), Below(x)>> \notin R
    <3>1. \A y \in S : Below(y) \in Parts  OBVIOUS
    <3>. HIDE DEF R, Parts, Below
    <3>. QED  BY <3>1
  <2>4. ASSUME NEW y \in S, y < x PROVE FALSE
    <3>. HIDE DEF R, Parts
    <3>0. x \in Nat /\ y \in Nat  OBVIOUS
    <3>1. y \in Below(x) /\ y \notin Below(y)  BY <2>4, <3>0
    <3>2. Below(y) \subseteq Below(x)
      <4>1. ASSUME NEW t \in S, t < y PROVE t < x
        <5>1. t \in Nat  OBVIOUS
        <5>. QED  BY <2>4, <3>0, <4>1, <5>1
      <4>. QED  BY <4>1
    <3>3. Below(x) \in SUBSET S /\ Below(y) \in SUBSET S  OBVIOUS
    <3>. HIDE DEF Below
    <3>4. <<Below(y), Below(x)>> \in R  BY <3>1, <3>2, <3>3 DEF R, StrictSubsetOrdering
    <3>. QED  BY <2>3, <3>4
  <2>. QED  BY <2>4
<1>4. \E x \in S : \A y \in S : x >= y
  <2>. DEFINE Above(x) == {t \in S : t > x}
              Parts == {Above(x) : x \in S}
  <2>1. Parts \subseteq FiniteSubsetsOf(S) /\ Parts # {}  BY <1>2
  <2>2. \E p \in Parts : \A q \in Parts : <<q, p>> \notin R
    <3>. HIDE DEF Parts, R
    <3>. QED  BY <1>1, <2>1, WFMin
  <2>. PICK p \in Parts : \A q \in Parts : <<q, p>> \notin R  BY <2>2
  <2>. PICK x \in S : p = Above(x)  OBVIOUS
  <2>3. \A y \in S : <<Above(y), Above(x)>> \notin R
    <3>1. \A y \in S : Above(y) \in Parts  OBVIOUS
    <3>. HIDE DEF R, Parts, Above
    <3>. QED  BY <3>1
  <2>4. ASSUME NEW y \in S, y > x PROVE FALSE
    <3>. HIDE DEF R, Parts
    <3>0. x \in Nat /\ y \in Nat  OBVIOUS
    <3>1. y \in Above(x) /\ y \notin Above(y)  BY <2>4, <3>0
    <3>2. Above(y) \subseteq Above(x)
      <4>1. ASSUME NEW t \in S, t > y PROVE t > x
        <5>1. t \in Nat  OBVIOUS
        <5>. QED  BY <2>4, <3>0, <4>1, <5>1
      <4>. QED  BY <4>1
    <3>3. Above(x) \in SUBSET S /\ Above(y) \in SUBSET S  OBVIOUS
    <3>. HIDE DEF Above
    <3>4. <<Above(y), Above(x)>> \in R  BY <3>1, <3>2, <3>3 DEF R, StrictSubsetOrdering
    <3>. QED  BY <2>3, <3>4
  <2>. QED  BY <2>4
<1>. QED  BY <1>3, <1>4

LEMMA MaxMin ==
  ASSUME NEW S \in SUBSET Seasons, S # {}
  PROVE  /\ Max(S) \in S /\ \A y \in S : y <= Max(S)
         /\ Min(S) \in S /\ \A y \in S : Min(S) <= y
<1>1. S \subseteq Nat /\ IsFiniteSet(S)  BY HistoryConstants, FS_Subset
<1>2. (\E x \in S : \A y \in S : x <= y) /\ \E x \in S : \A y \in S : x >= y
  BY <1>1, Extremes
<1>. QED  BY <1>1, <1>2 DEF Max, Min

-----------------------------------------------------------------------------

ImportTypes ==
  [pc : AtWork \cup {"idle", "due", "answered", "gaveup"},
   seasons : SUBSET Seasons, force : BOOLEAN, reuse : BOOLEAN,
   done : SUBSET Seasons, tries : 0..MaxTries, mixed : BOOLEAN]

LEMMA ImportShape ==
  ASSUME HistoryInv, NEW i \in Imports
  PROVE  /\ import[i] \in ImportTypes
         /\ import[i].seasons \in SUBSET Seasons /\ import[i].done \in SUBSET Seasons
         /\ ImportTrue(import[i], exposed, imported, checkpoint)
BY DEF HistoryInv, HistoryTypeOK, ImportTypes

\* The seasons a checkpoint answers for are stored, and none is left out.
LEMMA CompletedIsHeld ==
  ASSUME NEW R \in Requests, NEW has, NEW held, NEW c \in Checkpoint,
         CheckpointTrue(c, has, held), ~c.mixed, c.start = Max(R)
  PROVE  /\ CompletedFor(c, R) \subseteq R \cap held
         /\ Deep(CompletedFor(c, R), Max(R))
<1>0. /\ R \in SUBSET Seasons /\ R # {} /\ \A s \in Seasons : s \in Nat
      /\ Max(R) \in R /\ \A s \in R : s <= Max(R)
      /\ \A s \in R, t \in Seasons : s <= t /\ t <= Max(R) => t \in R
  BY HistoryConstants, MaxMin
<1>. DEFINE top == Max(R)
<1>1. /\ c.completed \subseteq held /\ Deep(c.completed, top) /\ c # NoCheckpoint
      /\ c.last # 0 => Down(top, c.last) \subseteq held
      /\ c.last \in Nat
  BY <1>0, HistoryConstants DEF CheckpointTrue, Checkpoint
<1>. DEFINE listed == c.completed \cap R
            named == c.last # 0 /\ c.start = Max(R)
<1>2. top \in Nat /\ \A s \in R : s \in Nat /\ s <= top  BY <1>0
<1>3. \A s \in R, t \in Seasons : s <= t /\ t <= top => t \in R  BY <1>0
<1>4. CASE listed # {}
  <2>1. CompletedFor(c, R) = listed  BY <1>1, <1>4 DEF CompletedFor
  <2>. HIDE DEF top
  <2>2. Deep(listed, top)  BY <1>0, <1>1, <1>3 DEF Deep
  <2>. QED  BY <1>1, <2>1, <2>2 DEF top
<1>5. CASE listed = {} /\ named /\ c.last \in R
  <2>1. CompletedFor(c, R) = {s \in R : s >= c.last}  BY <1>1, <1>5 DEF CompletedFor
  <2>. HIDE DEF top
  <2>2. {s \in R : s >= c.last} \subseteq Down(top, c.last)
    BY <1>0, <1>1, <1>2 DEF Down
  <2>3. Deep({s \in R : s >= c.last}, top)  BY <1>0, <1>1, <1>2, <1>3 DEF Deep
  <2>. QED  BY <1>1, <1>5, <2>1, <2>2, <2>3 DEF top
<1>6. CASE listed = {} /\ named /\ c.last \notin R
             /\ c.status = "completed" /\ c.last <= Min(R)
  <2>1. CompletedFor(c, R) = R  BY <1>1, <1>6 DEF CompletedFor
  <2>2. Min(R) \in R /\ \A s \in R : Min(R) <= s  BY <1>0, MaxMin
  <2>. HIDE DEF top
  <2>3. R \subseteq Down(top, c.last)  BY <1>0, <1>1, <1>2, <1>6, <2>2 DEF Down
  <2>4. Deep(R, top)  BY <1>0, <1>2, <1>3 DEF Deep
  <2>. QED  BY <1>1, <1>6, <2>1, <2>3, <2>4 DEF top
<1>7. CASE /\ ~(listed # {}) /\ ~(named /\ c.last \in R)
           /\ ~(named /\ c.last \notin R /\ c.status = "completed" /\ c.last <= Min(R))
  <2>1. CompletedFor(c, R) = {}  BY <1>1, <1>7 DEF CompletedFor
  <2>. QED  BY <2>1 DEF Deep
<1>. QED  BY <1>4, <1>5, <1>6, <1>7

LEMMA CompletedIsAsked ==
  ASSUME NEW R \in Requests, NEW c \in Checkpoint \cup {NoCheckpoint}
  PROVE  CompletedFor(c, R) \subseteq R
BY DEF CompletedFor

\* What an import has in mind stays so while seasons are added to the database.
LEMMA StaysTrue ==
  ASSUME NEW q, NEW has, NEW held, NEW more, held \subseteq more, NEW c, NEW d,
         c # NoCheckpoint => d # NoCheckpoint, ImportTrue(q, has, held, c)
  PROVE  ImportTrue(q, has, more, d)
BY DEF ImportTrue, CoveredBy

LEMMA CheckpointStaysTrue ==
  ASSUME NEW c, NEW has, NEW held, NEW more, held \subseteq more, CheckpointTrue(c, has, held)
  PROVE  CheckpointTrue(c, has, more)
BY DEF CheckpointTrue, CoveredBy

LEMMA MissedTyped ==
  ASSUME HistoryInv, NEW i \in Imports, NEW S,
         Lists(i, S) \/ Forget(i) \/ UNCHANGED missed
  PROVE  missed' \in [Imports -> SUBSET Seasons]
<1>1. /\ missed \in [Imports -> SUBSET Seasons]
      /\ \A j \in Imports : import[j].seasons \in SUBSET Seasons
  BY ImportShape DEF HistoryInv, HistoryTypeOK
<1>2. CASE Lists(i, S)
  <2>1. \A j \in Imports :
          missed[j] \cup ((S \cap import[j].seasons) \ import[j].done) \in SUBSET Seasons
    BY <1>1
  <2>. QED  BY <1>2, <2>1 DEF Lists
<1>3. CASE Forget(i) \/ UNCHANGED missed  BY <1>1, <1>3 DEF Forget
<1>. QED  BY <1>2, <1>3

\* A step of one import.
LEMMA OneMoves ==
  ASSUME HistoryInv, NEW i \in Imports, NEW q \in ImportTypes,
         NEW c \in Checkpoint \cup {NoCheckpoint}, NEW held \in SUBSET exposed,
         imported \subseteq held, checkpoint # NoCheckpoint => c # NoCheckpoint,
         c # NoCheckpoint => CheckpointTrue(c, exposed, held),
         ImportTrue(q, exposed, held, c),
         import' = [import EXCEPT ![i] = q], checkpoint' = c, imported' = held,
         exposed' = exposed, missed' \in [Imports -> SUBSET Seasons],
         requested' \in 0..MaxRequests, trouble' \in 0..MaxTrouble
  PROVE  HistoryInv'
<1>1. import \in [Imports -> ImportTypes] /\ exposed \subseteq Seasons
  BY DEF HistoryInv, HistoryTypeOK, ImportTypes
<1>2. HistoryTypeOK'
  <2>1. import' \in [Imports -> ImportTypes]  BY <1>1
  <2>. QED  BY <1>1, <2>1 DEF HistoryTypeOK, ImportTypes
<1>3. \A j \in Imports : ImportTrue(import'[j], exposed, held, c)
  <2>. SUFFICES ASSUME NEW j \in Imports PROVE ImportTrue(import'[j], exposed, held, c)
    OBVIOUS
  <2>1. CASE j = i
    <3>1. import'[j] = q  BY <1>1, <2>1
    <3>. QED  BY <3>1
  <2>2. CASE j # i
    <3>1. import'[j] = import[j]  BY <1>1, <2>2
    <3>2. ImportTrue(import[j], exposed, imported, checkpoint)  BY DEF HistoryInv
    <3>3. ImportTrue(import[j], exposed, held, c)  BY <3>2, StaysTrue
    <3>. QED  BY <3>1, <3>3
  <2>. QED  BY <2>1, <2>2
<1>. QED  BY <1>2, <1>3 DEF HistoryInv

\* What the step of one import leaves behind, but for the checkpoint and the database.
LEMMA OneMovesAlone ==
  ASSUME HistoryInv, NEW i \in Imports, NEW q \in ImportTypes,
         ImportTrue(q, exposed, imported, checkpoint),
         import' = [import EXCEPT ![i] = q], UNCHANGED <<exposed, imported, checkpoint>>,
         missed' \in [Imports -> SUBSET Seasons],
         requested' \in 0..MaxRequests, trouble' \in 0..MaxTrouble
  PROVE  HistoryInv'
<1>1. /\ checkpoint \in Checkpoint \cup {NoCheckpoint} /\ imported \in SUBSET exposed
      /\ checkpoint # NoCheckpoint => CheckpointTrue(checkpoint, exposed, imported)
  BY DEF HistoryInv, HistoryTypeOK
<1>. QED  BY <1>1, OneMoves

\* An import q that waits or is over, of the seasons R.
AtRest(q, R, pc) == q \in ImportTypes /\ q.pc = pc /\ q.seasons = R /\ q.done = {}

LEMMA ResetShape ==
  ASSUME NEW R \in SUBSET Seasons, NEW pc \in {"due", "answered", "gaveup"}
  PROVE  /\ AtRest([NoImport EXCEPT !.pc = pc, !.seasons = R], R, pc)
         /\ \A n \in 0..MaxTries :
              AtRest([NoImport EXCEPT !.pc = pc, !.seasons = R, !.tries = n], R, pc)
         /\ \A m \in BOOLEAN :
              /\ AtRest([NoImport EXCEPT !.pc = pc, !.seasons = R, !.mixed = m], R, pc)
              /\ [NoImport EXCEPT !.pc = pc, !.seasons = R, !.mixed = m].mixed = m
<1>1. 0 \in 0..MaxTries  BY HistoryConstants
<1>2. AtRest([NoImport EXCEPT !.pc = pc, !.seasons = R], R, pc)
  BY <1>1 DEF AtRest, NoImport, ImportTypes
<1>3. ASSUME NEW n \in 0..MaxTries
      PROVE  AtRest([NoImport EXCEPT !.pc = pc, !.seasons = R, !.tries = n], R, pc)
  BY DEF AtRest, NoImport, ImportTypes
<1>4. ASSUME NEW m \in BOOLEAN
      PROVE  /\ AtRest([NoImport EXCEPT !.pc = pc, !.seasons = R, !.mixed = m], R, pc)
             /\ [NoImport EXCEPT !.pc = pc, !.seasons = R, !.mixed = m].mixed = m
  BY <1>1 DEF AtRest, NoImport, ImportTypes
<1>. QED  BY <1>2, <1>3, <1>4

LEMMA EndedShape ==
  ASSUME HistoryInv, NEW i \in Imports, NEW pc \in {"answered", "gaveup"}
  PROVE  /\ AtRest(Ended(i, pc), import[i].seasons, pc)
         /\ Ended(i, pc).mixed = import[i].mixed
<1>. DEFINE R == import[i].seasons
            m == import[i].mixed
<1>1. R \in SUBSET Seasons /\ m \in BOOLEAN  BY ImportShape DEF ImportTypes
<1>2. Ended(i, pc) = [NoImport EXCEPT !.pc = pc, !.seasons = R, !.mixed = m]  BY DEF Ended
<1>. HIDE DEF R, m
<1>3. /\ AtRest([NoImport EXCEPT !.pc = pc, !.seasons = R, !.mixed = m], R, pc)
      /\ [NoImport EXCEPT !.pc = pc, !.seasons = R, !.mixed = m].mixed = m
  BY <1>1, ResetShape
<1>4. AtRest(Ended(i, pc), R, pc) /\ Ended(i, pc).mixed = m  BY <1>2, <1>3
<1>. QED  BY <1>4 DEF R, m

LEMMA RestTrue ==
  ASSUME HistoryInv, NEW R \in Requests, NEW q, NEW pc \in {"due", "answered", "gaveup"},
         AtRest(q, R, pc),
         pc = "answered" /\ ~q.mixed => CoveredBy(R, exposed, imported)
  PROVE  q \in ImportTypes /\ \A c : ImportTrue(q, exposed, imported, c)
BY HistoryConstants DEF AtRest, ImportTrue, Deep, AtWork

\* An import that waits, or is over without having answered.
LEMMA OverTrue ==
  ASSUME HistoryInv, NEW i \in Imports, import[i].pc # "idle",
         NEW q, q = Due(i) \/ q = Ended(i, "gaveup")
  PROVE  q \in ImportTypes /\ \A c : ImportTrue(q, exposed, imported, c)
<1>1. /\ import[i].seasons \in Requests /\ import[i].seasons \in SUBSET Seasons
      /\ import[i].tries \in 0..MaxTries
  BY ImportShape DEF ImportTrue, ImportTypes
<1>2. AtRest(q, import[i].seasons, "due") \/ AtRest(q, import[i].seasons, "gaveup")
  <2>1. AtRest(Due(i), import[i].seasons, "due")  BY <1>1, ResetShape DEF Due
  <2>2. AtRest(Ended(i, "gaveup"), import[i].seasons, "gaveup")  BY EndedShape
  <2>. QED  BY <2>1, <2>2
<1>. QED  BY <1>1, <1>2, RestTrue

\* An import that answers stands for all it was asked for.
LEMMA AnswerTrue ==
  ASSUME HistoryInv, NEW i \in Imports, import[i].pc # "idle",
         ~import[i].mixed => CoveredBy(import[i].seasons, exposed, imported)
  PROVE  /\ Ended(i, "answered") \in ImportTypes
         /\ \A c : ImportTrue(Ended(i, "answered"), exposed, imported, c)
<1>1. import[i].seasons \in Requests  BY ImportShape DEF ImportTrue
<1>2. /\ AtRest(Ended(i, "answered"), import[i].seasons, "answered")
      /\ Ended(i, "answered").mixed = import[i].mixed
  BY EndedShape
<1>. QED  BY <1>1, <1>2, RestTrue

LEMMA Counters == HistoryInv => requested \in 0..MaxRequests /\ trouble \in 0..MaxTrouble
BY DEF HistoryInv, HistoryTypeOK

LEMMA RequestKeeps ==
  ASSUME HistoryInv, NEW i \in Imports, NEW R \in Requests, Request(i, R)
  PROVE  HistoryInv'
<1>. DEFINE q == [NoImport EXCEPT !.pc = "due", !.seasons = R]
<1>1. /\ import' = [import EXCEPT ![i] = q]
      /\ UNCHANGED <<exposed, imported, checkpoint, missed, trouble>>
      /\ requested < MaxRequests /\ requested' = requested + 1
  BY DEF Request
<1>2. q \in ImportTypes /\ ImportTrue(q, exposed, imported, checkpoint)
  <2>1. AtRest(q, R, "due")  BY ResetShape, HistoryConstants
  <2>. HIDE DEF q
  <2>. QED  BY <2>1, RestTrue
<1>. HIDE DEF q
<1>3. requested' \in 0..MaxRequests  BY <1>1, Counters, HistoryConstants
<1>. QED  BY <1>1, <1>2, <1>3, OneMovesAlone, MissedTyped, Counters

LEMMA BeginKeeps == ASSUME HistoryInv, NEW i \in Imports, Begin(i) PROVE HistoryInv'
<1>1. PICK force \in BOOLEAN :
        import' = [import EXCEPT ![i].pc = "begun", ![i].force = force, ![i].tries = @ + 1]
  BY DEF Begin
<1>. DEFINE q == [import[i] EXCEPT !.pc = "begun", !.force = force, !.tries = @ + 1]
<1>2. /\ import[i].pc = "due" /\ import[i].tries < MaxTries /\ import' = [import EXCEPT ![i] = q]
      /\ UNCHANGED <<exposed, imported, checkpoint, missed, requested, trouble>>
  BY <1>1 DEF Begin, HistoryInv, HistoryTypeOK
<1>3. import[i] \in ImportTypes /\ ImportTrue(import[i], exposed, imported, checkpoint)
  BY ImportShape
<1>4. import[i].tries + 1 \in 0..MaxTries
  BY <1>2, <1>3, HistoryConstants DEF ImportTypes
<1>5. /\ q \in ImportTypes /\ q.pc = "begun" /\ q.seasons = import[i].seasons
      /\ q.done = import[i].done /\ q.mixed = import[i].mixed
  BY <1>3, <1>4 DEF ImportTypes, AtWork
<1>. HIDE DEF q
<1>6. ImportTrue(q, exposed, imported, checkpoint)
  BY <1>2, <1>3, <1>5 DEF ImportTrue, AtWork
<1>. QED  BY <1>2, <1>5, <1>6, OneMovesAlone, MissedTyped, Counters

LEMMA OverKeeps ==
  ASSUME HistoryInv, NEW i \in Imports, GiveUp(i) \/ Die(i) PROVE HistoryInv'
<1>1. /\ import[i].pc # "idle" /\ UNCHANGED <<exposed, imported, checkpoint, requested>>
      /\ trouble' \in 0..MaxTrouble /\ (Forget(i) \/ UNCHANGED missed)
  BY Counters, HistoryConstants DEF GiveUp, Die, Working, AtWork
<1>2. \E q : (q = Due(i) \/ q = Ended(i, "gaveup")) /\ import' = [import EXCEPT ![i] = q]
  BY DEF GiveUp, Die
<1>3. PICK q \in ImportTypes : /\ import' = [import EXCEPT ![i] = q]
                               /\ ImportTrue(q, exposed, imported, checkpoint)
  BY <1>1, <1>2, OverTrue
<1>. QED  BY <1>1, <1>3, Counters, MissedTyped, OneMovesAlone

LEMMA FinishKeeps ==
  ASSUME HistoryInv, NEW i \in Imports, Finish(i) PROVE HistoryInv'
<1>1. ~import[i].mixed => CoveredBy(import[i].seasons, exposed, imported)
  BY ImportShape DEF Finish, Remaining, ImportTrue, CoveredBy
<1>. QED  BY <1>1, AnswerTrue, Counters, MissedTyped, OneMovesAlone DEF Finish

\* A checkpoint that covers a request does: what it gave up is not to be had.
LEMMA AnsweredByCheckpoint ==
  ASSUME NEW R \in Requests, NEW c \in Checkpoint,
         CheckpointTrue(c, exposed, imported), ~c.mixed, c.start = Max(R),
         NEW done, done \subseteq imported, CompleteFor(c, R, done)
  PROVE  CoveredBy(R, exposed, imported)
<1>. SUFFICES ASSUME NEW s \in R, s \notin imported
              PROVE  \E e \in R \ exposed : s <= e
  BY DEF CoveredBy
<1>1. s \in Nat /\ s > 0 /\ s <= c.exhausted /\ c.exhausted \in Seasons \cup {0}
      /\ R \in SUBSET Seasons /\ R # {}
      /\ \A t, x \in R, y \in Seasons : t <= y /\ y <= x => y \in R
  BY HistoryConstants DEF CompleteFor, Checkpoint
<1>2. c.exhausted # 0 /\ Max(R) \in R
  <2>1. c.exhausted # 0  BY <1>1
  <2>2. Max(R) \in R  BY <1>1, MaxMin
  <2>. QED  BY <2>1, <2>2
<1>3. c.exhausted \notin exposed /\ c.exhausted <= Max(R)  BY <1>2 DEF CheckpointTrue
<1>. QED  BY <1>1, <1>2, <1>3

LEMMA ReadKeeps ==
  ASSUME HistoryInv, NEW i \in Imports, ReadCheckpoint(i) PROVE HistoryInv'
<1>. DEFINE R == import[i].seasons
            reuse == Reusable(checkpoint, i)
            completed == IF reuse THEN CompletedFor(checkpoint, R) ELSE {}
            mixed == reuse /\ checkpoint.mixed
<1>1. /\ import[i].pc = "begun" /\ import[i] \in ImportTypes /\ R \in Requests /\ R \in SUBSET Seasons
      /\ checkpoint \in Checkpoint \cup {NoCheckpoint}
      /\ checkpoint # NoCheckpoint => CheckpointTrue(checkpoint, exposed, imported)
  BY ImportShape DEF ReadCheckpoint, ImportTrue, HistoryInv, HistoryTypeOK
<1>2. /\ completed \subseteq R /\ mixed \in BOOLEAN
      /\ ~mixed => completed \subseteq imported /\ Deep(completed, Max(R))
      /\ reuse \in BOOLEAN /\ (reuse => checkpoint # NoCheckpoint /\ checkpoint.start = Max(R))
      /\ reuse /\ ~mixed => ~checkpoint.mixed
  <2>1. /\ reuse \in BOOLEAN /\ mixed \in BOOLEAN /\ (reuse /\ ~mixed => ~checkpoint.mixed)
        /\ (reuse => checkpoint # NoCheckpoint /\ checkpoint.start = Max(R))
    BY DEF Reusable
  <2>2. completed \subseteq R  BY <1>1, CompletedIsAsked
  <2>3. CASE ~reuse  BY <2>1, <2>2, <2>3 DEF Deep
  <2>4. CASE reuse
    <3>1. ~mixed => /\ CompletedFor(checkpoint, R) \subseteq imported
                    /\ Deep(CompletedFor(checkpoint, R), Max(R))
      BY <1>1, <2>1, <2>4, CompletedIsHeld
    <3>. QED  BY <2>1, <2>2, <2>4, <3>1
  <2>. QED  BY <2>3, <2>4
<1>3. /\ import' = [import EXCEPT ![i] =
           IF reuse /\ CompleteFor(checkpoint, R, completed)
           THEN [Ended(i, "answered") EXCEPT !.mixed = mixed]
           ELSE [import[i] EXCEPT !.pc = "opening", !.reuse = reuse, !.done = completed,
                                  !.mixed = mixed]]
      /\ UNCHANGED <<exposed, imported, checkpoint, missed, requested, trouble>>
  BY DEF ReadCheckpoint
<1>. HIDE DEF reuse, completed, mixed
<1>4. CASE reuse /\ CompleteFor(checkpoint, R, completed)
  <2>. DEFINE q == [Ended(i, "answered") EXCEPT !.mixed = mixed]
  <2>1. ~mixed => CoveredBy(R, exposed, imported)
    BY <1>1, <1>2, <1>4, AnsweredByCheckpoint
  <2>2. import' = [import EXCEPT ![i] = q]  BY <1>3, <1>4
  <2>3. AtRest(q, R, "answered") /\ q.mixed = mixed
    <3>1. AtRest(Ended(i, "answered"), R, "answered")  BY EndedShape
    <3>. QED  BY <1>2, <3>1 DEF AtRest, ImportTypes
  <2>. HIDE DEF q
  <2>4. q \in ImportTypes /\ ImportTrue(q, exposed, imported, checkpoint)
    BY <1>1, <2>1, <2>3, RestTrue
  <2>. QED  BY <1>3, <2>2, <2>4, Counters, MissedTyped, OneMovesAlone
<1>5. CASE ~(reuse /\ CompleteFor(checkpoint, R, completed))
  <2>. DEFINE q == [import[i] EXCEPT !.pc = "opening", !.reuse = reuse, !.done = completed,
                                     !.mixed = mixed]
  <2>1. import' = [import EXCEPT ![i] = q]  BY <1>3, <1>5
  <2>2. q \in ImportTypes  BY <1>1, <1>2 DEF ImportTypes, AtWork
  <2>3. q.pc = "opening" /\ q.reuse = reuse /\ q.done = completed /\ q.seasons = R /\ q.mixed = mixed
    BY <1>1 DEF ImportTypes
  <2>. HIDE DEF q
  <2>4. ImportTrue(q, exposed, imported, checkpoint)
    BY <1>1, <1>2, <2>3, HistoryConstants DEF ImportTrue, AtWork
  <2>. QED  BY <1>3, <2>1, <2>2, <2>4, Counters, MissedTyped, OneMovesAlone
<1>. QED  BY <1>4, <1>5

\* A checkpoint that is opened lists what its import has in mind.
LEMMA OpenedTrue ==
  ASSUME HistoryInv, NEW i \in Imports, import[i].pc = "opening"
  PROVE  /\ Opened(i) \in Checkpoint /\ CheckpointTrue(Opened(i), exposed, imported)
         /\ Opened(i) # NoCheckpoint /\ Opened(i).start = Max(import[i].seasons)
<1>1. /\ import[i] \in ImportTypes /\ import[i].seasons \in SUBSET Seasons /\ import[i].seasons # {}
      /\ import[i].done \in SUBSET Seasons
      /\ ~import[i].mixed =>
           import[i].done \subseteq imported /\ Deep(import[i].done, Max(import[i].seasons))
      /\ import[i].reuse => checkpoint # NoCheckpoint
      /\ checkpoint \in Checkpoint \cup {NoCheckpoint}
      /\ checkpoint # NoCheckpoint => CheckpointTrue(checkpoint, exposed, imported)
  BY ImportShape DEF ImportTrue, HistoryInv, HistoryTypeOK
<1>. DEFINE start == Max(import[i].seasons)
            last == IF import[i].reuse THEN checkpoint.last ELSE 0
            mixed == import[i].mixed \/ (import[i].reuse /\ (checkpoint.mixed \/ Replaced(i)))
<1>2. start \in Seasons  BY <1>1, MaxMin
<1>3. /\ last \in Seasons \cup {0} /\ mixed \in BOOLEAN
      /\ ~mixed => ~import[i].mixed
      /\ ~mixed /\ last # 0 => Down(start, last) \subseteq imported
  BY <1>1 DEF Checkpoint, CheckpointTrue, Replaced
<1>4. Opened(i) = [status |-> "running", start |-> start,
                   asked |-> import[i].seasons, completed |-> import[i].done,
                   exhausted |-> 0, last |-> last, mixed |-> mixed]
  BY DEF Opened
<1>. HIDE DEF last, mixed, start
<1>5. Opened(i) \in Checkpoint  BY <1>1, <1>2, <1>3, <1>4 DEF Checkpoint
<1>6. CheckpointTrue(Opened(i), exposed, imported)
  BY <1>1, <1>3, <1>4 DEF CheckpointTrue, start
<1>. QED  BY <1>4, <1>5, <1>6, HistoryConstants DEF start

LEMMA OpenKeeps ==
  ASSUME HistoryInv, NEW i \in Imports, Open(i) PROVE HistoryInv'
<1>. DEFINE R == import[i].seasons
            done == CompletedFor(Opened(i), R)
            mixed == Opened(i).mixed
            q == [import[i] EXCEPT !.pc = "fetching", !.done = done, !.mixed = mixed]
<1>1. /\ import[i].pc = "opening" /\ import[i] \in ImportTypes /\ R \in Requests
      /\ R \in SUBSET Seasons /\ imported \in SUBSET exposed
  BY ImportShape DEF Open, ImportTrue, HistoryInv, HistoryTypeOK
<1>2. /\ Opened(i) \in Checkpoint /\ CheckpointTrue(Opened(i), exposed, imported)
      /\ Opened(i) # NoCheckpoint /\ Opened(i).start = Max(R)
  BY <1>1, OpenedTrue
<1>3. /\ done \subseteq R /\ mixed \in BOOLEAN
      /\ ~mixed => done \subseteq imported /\ Deep(done, Max(R))
  <2>1. mixed \in BOOLEAN  BY <1>2 DEF Checkpoint
  <2>. QED  BY <1>1, <1>2, <2>1, CompletedIsHeld, CompletedIsAsked
<1>4. /\ import' = [import EXCEPT ![i] = q] /\ Lists(i, import[i].done)
      /\ checkpoint' = Opened(i) /\ UNCHANGED <<exposed, imported, requested, trouble>>
  BY <1>1 DEF Open, HistoryInv, HistoryTypeOK
<1>. HIDE DEF done, mixed
<1>5. /\ q \in ImportTypes /\ q.pc = "fetching" /\ q.done = done /\ q.seasons = R
      /\ q.mixed = mixed
  BY <1>1, <1>3 DEF ImportTypes, AtWork
<1>. HIDE DEF q
<1>6. ImportTrue(q, exposed, imported, Opened(i))
  BY <1>1, <1>2, <1>3, <1>5, HistoryConstants DEF ImportTrue, AtWork
<1>7. missed' \in [Imports -> SUBSET Seasons]  BY <1>4, MissedTyped
<1>. QED  BY <1>1, <1>2, <1>4, <1>5, <1>6, <1>7, Counters, OneMoves

\* The season an import works on is the newest one it has left.
LEMMA NewestOfLeft ==
  ASSUME HistoryInv, NEW i \in Imports, Remaining(i) # {}
  PROVE  /\ NewestLeft(i) \in Remaining(i) /\ NewestLeft(i) \in Seasons
         /\ \A s \in Remaining(i) : s <= NewestLeft(i)
         /\ NewestLeft(i) = Max(import[i].seasons \ import[i].done)
<1>1. Remaining(i) \in SUBSET Seasons  BY ImportShape DEF Remaining
<1>. QED  BY <1>1, MaxMin DEF NewestLeft, Remaining

LEMMA FetchKeeps ==
  ASSUME HistoryInv, NEW i \in Imports, FetchSeason(i) PROVE HistoryInv'
<1>1. /\ import[i].pc = "fetching" /\ Remaining(i) # {} /\ trouble' \in 0..MaxTrouble
      /\ UNCHANGED <<exposed, imported, checkpoint, missed, requested>>
  BY Counters, HistoryConstants DEF FetchSeason
<1>2. PICK pc \in {"bundle", "empty", "refused"} :
        /\ import' = [import EXCEPT ![i].pc = pc]
        /\ pc = "bundle" => NewestLeft(i) \in exposed
        /\ pc = "empty" => NewestLeft(i) \notin exposed
  <2>1. CASE import' = [import EXCEPT ![i].pc =
                          IF NewestLeft(i) \in exposed THEN "bundle" ELSE "empty"]
    <3>1. CASE NewestLeft(i) \in exposed  BY <2>1, <3>1
    <3>2. CASE NewestLeft(i) \notin exposed  BY <2>1, <3>2
    <3>. QED  BY <3>1, <3>2
  <2>2. CASE import' = [import EXCEPT ![i].pc = "refused"]  BY <2>2
  <2>. QED  BY <2>1, <2>2 DEF FetchSeason
<1>. DEFINE q == [import[i] EXCEPT !.pc = pc]
<1>3. import' = [import EXCEPT ![i] = q]  BY <1>2
<1>4. /\ q \in ImportTypes /\ q.pc = pc /\ q.mixed = import[i].mixed
      /\ q.done = import[i].done /\ q.seasons = import[i].seasons
  BY ImportShape DEF ImportTypes, AtWork
<1>. HIDE DEF q
<1>5. ImportTrue(q, exposed, imported, checkpoint)
  BY <1>1, <1>2, <1>4, ImportShape DEF ImportTrue, AtWork, NewestLeft, Remaining
<1>. QED  BY <1>1, <1>3, <1>4, <1>5, Counters, MissedTyped, OneMovesAlone

LEMMA PersistKeeps ==
  ASSUME HistoryInv, NEW i \in Imports, Persist(i) PROVE HistoryInv'
<1>. DEFINE q == [import[i] EXCEPT !.pc = "imported"]
            held == imported \cup {NewestLeft(i)}
<1>1. /\ import[i].pc = "bundle" /\ imported' = held /\ import' = [import EXCEPT ![i] = q]
      /\ UNCHANGED <<exposed, checkpoint, missed, requested, trouble>>
  BY DEF Persist
<1>2. /\ q \in ImportTypes /\ q.pc = "imported" /\ q.mixed = import[i].mixed
      /\ q.done = import[i].done /\ q.seasons = import[i].seasons
  BY ImportShape DEF ImportTypes, AtWork
<1>. HIDE DEF q
<1>3. NewestLeft(i) \in exposed
  BY <1>1, ImportShape DEF ImportTrue, NewestLeft, Remaining
<1>4. /\ held \in SUBSET exposed /\ imported \subseteq held
      /\ checkpoint \in Checkpoint \cup {NoCheckpoint}
      /\ checkpoint # NoCheckpoint => CheckpointTrue(checkpoint, exposed, held)
  BY <1>3, CheckpointStaysTrue DEF HistoryInv, HistoryTypeOK
<1>5. ImportTrue(q, exposed, held, checkpoint)
  BY <1>1, <1>2, ImportShape DEF ImportTrue, AtWork, NewestLeft, Remaining
<1>. HIDE DEF held
<1>. QED  BY <1>1, <1>2, <1>4, <1>5, Counters, MissedTyped, OneMoves

\* The newest season that is left is next to those that are done.
LEMMA NextIsDeep ==
  ASSUME HistoryInv, NEW i \in Imports, Remaining(i) # {}, ~import[i].mixed
  PROVE  /\ Deep(import[i].done \cup {NewestLeft(i)}, Max(import[i].seasons))
         /\ Down(Max(import[i].seasons), NewestLeft(i))
              \subseteq import[i].done \cup {NewestLeft(i)}
<1>. DEFINE R == import[i].seasons
            top == Max(R)
            new == NewestLeft(i)
<1>1. /\ R \in SUBSET Seasons /\ R \in Requests \cup {{}} /\ \A s \in Seasons : s \in Nat
      /\ Deep(import[i].done, top)
  BY ImportShape, HistoryConstants DEF ImportTrue
<1>2. new \in R /\ new \in Seasons /\ \A s \in Remaining(i) : s <= new
  BY NewestOfLeft DEF Remaining
<1>3. top \in R /\ new <= top /\ top \in Nat /\ \A s \in Seasons : new <= s /\ s <= top => s \in R
  BY <1>1, <1>2, MaxMin, HistoryConstants
<1>4. Down(top, new) \subseteq import[i].done \cup {new}
  <2>. SUFFICES ASSUME NEW s \in Down(top, new), s \notin import[i].done PROVE s = new
    OBVIOUS
  <2>1. s \in Seasons /\ new <= s /\ s <= top  BY DEF Down
  <2>2. s \in Remaining(i)  BY <1>3, <2>1 DEF Remaining
  <2>. QED  BY <1>1, <1>2, <2>1, <2>2
<1>. HIDE DEF new, top
<1>5. Deep(import[i].done \cup {new}, top)  BY <1>1, <1>3, <1>4 DEF Deep, Down
<1>. QED  BY <1>4, <1>5 DEF new, top

LEMMA MarkProgressKeeps ==
  ASSUME HistoryInv, NEW i \in Imports, MarkProgress(i) PROVE HistoryInv'
<1>. DEFINE R == import[i].seasons
            done == import[i].done \cup {NewestLeft(i)}
            q == [import[i] EXCEPT !.pc = "fetching", !.done = done]
            c == Progress(i, done)
<1>1. /\ import[i].pc = "imported" /\ checkpoint' = c /\ Lists(i, done)
      /\ UNCHANGED <<exposed, imported, requested, trouble>>
  BY DEF MarkProgress
<1>2. import' = [import EXCEPT ![i] = q]  BY DEF MarkProgress, HistoryInv, HistoryTypeOK
<1>3. /\ Remaining(i) # {} /\ NewestLeft(i) \in imported
      /\ import[i] \in ImportTypes /\ R \in SUBSET Seasons /\ R # {} /\ R \in Requests \cup {{}}
      /\ import[i].done \in SUBSET Seasons /\ import[i].mixed \in BOOLEAN
      /\ ~import[i].mixed => import[i].done \subseteq imported
      /\ imported \in SUBSET exposed /\ checkpoint # NoCheckpoint
  BY <1>1, ImportShape
     DEF ImportTrue, ImportTypes, NewestLeft, Remaining, HistoryInv, HistoryTypeOK, AtWork
<1>4. /\ NewestLeft(i) \in Seasons /\ done \in SUBSET Seasons
      /\ ~import[i].mixed => /\ done \subseteq imported /\ Deep(done, Max(R))
                             /\ Down(Max(R), NewestLeft(i)) \subseteq done
  BY <1>3, NewestOfLeft, NextIsDeep
<1>. HIDE DEF done
<1>5. Max(R) \in Seasons  BY <1>3, MaxMin
<1>6. c \in Checkpoint
  BY <1>3, <1>4, <1>5 DEF Progress, Checkpoint
<1>7. /\ CheckpointTrue(c, exposed, imported) /\ c # NoCheckpoint
  BY <1>4, <1>6, HistoryConstants DEF Progress, CheckpointTrue, CoveredBy
<1>8. /\ q \in ImportTypes /\ q.pc = "fetching" /\ q.done = done /\ q.seasons = R
      /\ q.mixed = import[i].mixed
  BY <1>3, <1>4 DEF ImportTypes, AtWork
<1>. HIDE DEF c, q
<1>9. ImportTrue(q, exposed, imported, c)
  BY <1>3, <1>4, <1>7, <1>8 DEF ImportTrue, AtWork
<1>10. missed' \in [Imports -> SUBSET Seasons]  BY <1>1, MissedTyped
<1>. QED  BY <1>1, <1>2, <1>3, <1>6, <1>7, <1>8, <1>9, <1>10, Counters, OneMoves

LEMMA MarkExhaustedKeeps ==
  ASSUME HistoryInv, NEW i \in Imports, MarkExhausted(i) PROVE HistoryInv'
<1>. DEFINE R == import[i].seasons
            done == import[i].done
            last == IF done = {} THEN 0 ELSE Min(done)
            mixed == import[i].mixed \/ Replaced(i)
            c == [checkpoint EXCEPT !.status = "completed", !.asked = R, !.completed = done,
                                    !.exhausted = NewestLeft(i), !.last = last,
                                    !.mixed = mixed]
<1>1. /\ import[i].pc = "empty" /\ checkpoint' = c
      /\ import' = [import EXCEPT ![i] = Ended(i, "answered")] /\ Lists(i, done)
      /\ UNCHANGED <<exposed, imported, requested, trouble>>
  BY DEF MarkExhausted
<1>2. /\ Remaining(i) # {} /\ NewestLeft(i) \notin exposed
      /\ R \in SUBSET Seasons /\ done \in SUBSET Seasons /\ import[i].mixed \in BOOLEAN
      /\ ~import[i].mixed => done \subseteq imported /\ Deep(done, Max(R))
      /\ imported \in SUBSET exposed /\ checkpoint \in Checkpoint
  BY <1>1, ImportShape
     DEF ImportTrue, ImportTypes, NewestLeft, Remaining, HistoryInv, HistoryTypeOK, AtWork
<1>3. /\ NewestLeft(i) \in Seasons /\ NewestLeft(i) \in R /\ NewestLeft(i) <= Max(R)
      /\ \A s \in R \ done : s <= NewestLeft(i)
  <2>1. NewestLeft(i) \in Seasons /\ NewestLeft(i) \in R
    BY <1>2, NewestOfLeft DEF Remaining
  <2>. QED  BY <1>2, <2>1, NewestOfLeft, MaxMin DEF Remaining
<1>4. ~import[i].mixed => CoveredBy(R, exposed, imported)  BY <1>2, <1>3 DEF CoveredBy
<1>5. /\ last \in Seasons \cup {0}
      /\ ~import[i].mixed /\ last # 0 => Down(Max(R), last) \subseteq imported
  <2>1. CASE done = {}  BY <2>1
  <2>2. CASE done # {}
    <3>1. Min(done) \in done  BY <1>2, <2>2, MaxMin
    <3>2. Deep(done, Max(R)) => Down(Max(R), Min(done)) \subseteq done
      BY <3>1 DEF Deep, Down
    <3>. QED  BY <1>2, <2>2, <3>1, <3>2
  <2>. QED  BY <2>1, <2>2
<1>6. mixed \in BOOLEAN /\ (~mixed => ~import[i].mixed /\ checkpoint.start = Max(R))
  BY <1>2 DEF Replaced
<1>. HIDE DEF last, mixed
<1>7. /\ c \in Checkpoint /\ c.status = "completed" /\ c.asked = R /\ c.completed = done
      /\ c.exhausted = NewestLeft(i) /\ c.last = last /\ c.mixed = mixed
      /\ c.start = checkpoint.start
  BY <1>2, <1>3, <1>5, <1>6 DEF Checkpoint
<1>. HIDE DEF c
<1>8. CheckpointTrue(c, exposed, imported) /\ c # NoCheckpoint
  BY <1>2, <1>3, <1>4, <1>5, <1>6, <1>7, HistoryConstants DEF CheckpointTrue
<1>9. /\ Ended(i, "answered") \in ImportTypes
      /\ ImportTrue(Ended(i, "answered"), exposed, imported, c)
  BY <1>1, <1>4, AnswerTrue
<1>10. missed' \in [Imports -> SUBSET Seasons]  BY <1>1, MissedTyped
<1>. QED  BY <1>1, <1>2, <1>7, <1>8, <1>9, <1>10, Counters, OneMoves

LEMMA MarkFailedKeeps ==
  ASSUME HistoryInv, NEW i \in Imports, MarkFailed(i) PROVE HistoryInv'
<1>. DEFINE c == [checkpoint EXCEPT !.status = "failed"]
<1>1. /\ import[i].pc = "refused" /\ checkpoint' = c /\ Forget(i)
      /\ UNCHANGED <<exposed, imported, requested, trouble>>
  BY DEF MarkFailed
<1>2. /\ checkpoint \in Checkpoint /\ CheckpointTrue(checkpoint, exposed, imported)
      /\ imported \in SUBSET exposed
  BY <1>1, ImportShape DEF ImportTrue, HistoryInv, HistoryTypeOK, AtWork
<1>3. /\ c \in Checkpoint /\ c.status = "failed" /\ c.completed = checkpoint.completed
      /\ c.last = checkpoint.last /\ c.exhausted = checkpoint.exhausted
      /\ c.start = checkpoint.start /\ c.mixed = checkpoint.mixed
  BY <1>2 DEF Checkpoint
<1>. HIDE DEF c
<1>4. CheckpointTrue(c, exposed, imported) /\ c # NoCheckpoint
  BY <1>2, <1>3, HistoryConstants DEF CheckpointTrue
<1>5. PICK q : (q = Due(i) \/ q = Ended(i, "gaveup")) /\ import' = [import EXCEPT ![i] = q]
  BY DEF MarkFailed
<1>6. q \in ImportTypes /\ ImportTrue(q, exposed, imported, c)
  BY <1>1, <1>5, OverTrue
<1>. QED  BY <1>1, <1>2, <1>3, <1>4, <1>5, <1>6, Counters, MissedTyped, OneMoves

LEMMA HistoryStarts == HistoryInit => HistoryInv
<1>. SUFFICES ASSUME HistoryInit PROVE HistoryInv  OBVIOUS
<1>1. NoImport \in ImportTypes /\ NoImport.pc = "idle" /\ NoImport.seasons = {} /\ NoImport.done = {}
  BY HistoryConstants DEF NoImport, ImportTypes
<1>2. HistoryTypeOK
  BY <1>1, HistoryConstants DEF HistoryInit, HistoryTypeOK, ImportTypes
<1>3. \A c : ImportTrue(NoImport, exposed, imported, c)
  BY <1>1 DEF ImportTrue, Deep, AtWork
<1>. QED  BY <1>2, <1>3 DEF HistoryInit, HistoryInv

LEMMA HistoryKeeps == HistoryInv /\ [HistoryNext]_historyVars => HistoryInv'
<1>. SUFFICES ASSUME HistoryInv, [HistoryNext]_historyVars PROVE HistoryInv'  OBVIOUS
<1>1. CASE UNCHANGED historyVars
  BY <1>1 DEF historyVars, HistoryInv, HistoryTypeOK
<1>2. ASSUME NEW i \in Imports, NEW R \in Requests, Request(i, R) PROVE HistoryInv'
  BY <1>2, RequestKeeps
<1>3. ASSUME NEW i \in Imports, Step(i) \/ Die(i) PROVE HistoryInv'
  BY <1>3, BeginKeeps, OverKeeps, ReadKeeps, OpenKeeps, FetchKeeps, PersistKeeps,
     MarkProgressKeeps, MarkExhaustedKeeps, MarkFailedKeeps, FinishKeeps DEF Step
<1>. QED  BY <1>1, <1>2, <1>3 DEF HistoryNext

LEMMA HistoryInvariant == HistorySpec => []HistoryInv
  BY HistoryStarts, HistoryKeeps, PTL DEF HistorySpec

\* The checkpoint and the jobs of a league's import keep their types, whatever seasons
\* are asked for.
THEOREM HistoryTypes == HistorySpec => []HistoryTypeOK
<1>1. HistoryInv => HistoryTypeOK  BY DEF HistoryInv
<1>. QED  BY <1>1, HistoryInvariant, PTL

\* Nobody is told of history that is not there (CompleteFor, CompletedFor and the marks
\* of historical-import.ts), for any ranges of seasons asked for and any number of
\* overlapping imports, tries and failures, by a checkpoint that does not mix two newest
\* seasons nor by an import that resumed from none that did.
THEOREM UnmixedHistory == HistorySpec => []UnmixedIsThere
<1>1. HistoryInv => UnmixedIsThere
  BY DEF HistoryInv, CheckpointTrue, ImportTrue, UnmixedIsThere, CoveredBy, Covered
<1>. QED  BY <1>1, HistoryInvariant, PTL

-----------------------------------------------------------------------------
(* What an import resumes *)

\* A step of one import that lists what it has in mind.
LEMMA ListsResumes ==
  ASSUME HistoryInv, NEW i \in Imports, NEW q, NEW S, Lists(i, S),
         import' = [import EXCEPT ![i] = q], checkpoint' # NoCheckpoint => checkpoint'.completed = S,
         q.pc \in AtWork => S \cap q.seasons \subseteq q.done
  PROVE  ResumeInv'
<1>1. /\ import'[i] = q /\ \A j \in Imports : j # i => import'[j] = import[j]
  BY DEF HistoryInv, HistoryTypeOK
<1>2. ASSUME NEW j \in Imports PROVE Resumed(import'[j], checkpoint', missed'[j])
  <2>1. CASE j = i  BY <1>1, <2>1 DEF Resumed
  <2>2. CASE j # i /\ (import[j].pc \notin AtWork \/ import[j].pc = "begun")
    BY <1>1, <2>2 DEF Resumed
  <2>3. CASE j # i /\ Working(j) /\ import[j].pc # "begun"
    <3>1. missed'[j] = missed[j] \cup ((S \cap import[j].seasons) \ import[j].done)
      BY <2>3 DEF Lists
    <3>. QED  BY <1>1, <2>3, <3>1 DEF Resumed
  <2>. QED  BY <2>1, <2>2, <2>3 DEF Working
<1>. QED  BY <1>2 DEF ResumeInv

\* A step of one import that lists nothing.
LEMMA StaysResumes ==
  ASSUME HistoryInv, ResumeInv, NEW i \in Imports, NEW q, UNCHANGED missed \/ Forget(i),
         import' = [import EXCEPT ![i] = q],
         checkpoint' # NoCheckpoint =>
           /\ checkpoint # NoCheckpoint
           /\ checkpoint'.completed = checkpoint.completed /\ checkpoint'.start = checkpoint.start,
         Resumed(q, checkpoint', missed'[i])
  PROVE  ResumeInv'
<1>1. /\ import'[i] = q
      /\ \A j \in Imports : j # i => import'[j] = import[j] /\ missed'[j] = missed[j]
  BY DEF HistoryInv, HistoryTypeOK, Forget
<1>2. ASSUME NEW j \in Imports PROVE Resumed(import'[j], checkpoint', missed'[j])
  <2>1. CASE j = i  BY <1>1, <2>1
  <2>2. CASE j # i  BY <1>1, <2>2 DEF ResumeInv, Resumed
  <2>. QED  BY <2>1, <2>2
<1>. QED  BY <1>2 DEF ResumeInv

\* What a checkpoint lists of a request is taken over.
LEMMA ListedIsCompleted ==
  ASSUME NEW c \in Checkpoint, NEW R
  PROVE  NoCheckpoint # c => c.completed \cap R \subseteq CompletedFor(c, R)
BY DEF CompletedFor

\* The seasons that a step of an import at work forgets are forgotten for one of the
\* reasons ProgressKept names.
Forgets(i, s) ==
  /\ import'[i] # import[i]
  /\ \/ s \notin import[i].seasons
     \/ import[i].pc = "opening" /\ (import[i].force \/ Replaced(i))
     \/ s \in missed[i]

LEMMA OnlyWriters ==
  ASSUME HistoryInv, ResumeInv, NEW i \in Imports, Working(i), import[i].pc # "begun",
         import'[i] # import[i], checkpoint # NoCheckpoint,
         NEW more, import[i].done \subseteq more, checkpoint'.completed = more
  PROVE  \A s \in checkpoint.completed \ checkpoint'.completed : Forgets(i, s)
<1>1. Resumed(import[i], checkpoint, missed[i]) /\ import[i].pc \in AtWork \ {"begun"}
  BY DEF ResumeInv, Working
<1>. QED  BY <1>1 DEF Resumed, Forgets, Replaced

LEMMA ReadResumes ==
  ASSUME HistoryInv, ResumeInv, NEW i \in Imports, ReadCheckpoint(i) PROVE ResumeInv'
<1>. DEFINE R == import[i].seasons
            reuse == Reusable(checkpoint, i)
            completed == IF reuse THEN CompletedFor(checkpoint, R) ELSE {}
            mixed == reuse /\ checkpoint.mixed
            a == [Ended(i, "answered") EXCEPT !.mixed = mixed]
            q == [import[i] EXCEPT !.pc = "opening", !.reuse = reuse, !.done = completed,
                                   !.mixed = mixed]
<1>1. /\ import[i].pc = "begun" /\ import[i] \in ImportTypes /\ UNCHANGED <<checkpoint, missed>>
      /\ checkpoint \in Checkpoint \cup {NoCheckpoint}
      /\ R \in SUBSET Seasons /\ import[i].mixed \in BOOLEAN
  BY ImportShape DEF ReadCheckpoint, ImportTypes, HistoryInv, HistoryTypeOK
<1>2. import' = [import EXCEPT ![i] = a] \/ import' = [import EXCEPT ![i] = q]
  BY DEF ReadCheckpoint
<1>3. CASE import' = [import EXCEPT ![i] = a]
  <2>1. AtRest(Ended(i, "answered"), R, "answered")  BY EndedShape
  <2>2. a.pc = "answered"  BY <2>1 DEF AtRest, ImportTypes
  <2>. HIDE DEF a
  <2>. QED  BY <1>1, <1>3, <2>2, StaysResumes DEF Resumed, AtWork
<1>4. CASE import' = [import EXCEPT ![i] = q]
  <2>1. q.force = import[i].force /\ q.done = completed /\ q.seasons = R
    BY <1>1 DEF ImportTypes
  <2>2. ~import[i].force /\ checkpoint # NoCheckpoint /\ checkpoint.start = Max(R)
          => checkpoint.completed \cap R \subseteq completed
    BY <1>1, ListedIsCompleted DEF Reusable
  <2>3. q.pc = "opening"  BY <1>1 DEF ImportTypes
  <2>. HIDE DEF q, completed, mixed
  <2>4. Resumed(q, checkpoint, missed[i])  BY <2>1, <2>2, <2>3 DEF Resumed
  <2>. QED  BY <1>1, <1>4, <2>4, StaysResumes
<1>. QED  BY <1>2, <1>3, <1>4

\* Once it has written the checkpoint, an import has in mind what is listed there.
LEMMA WriteResumes ==
  ASSUME HistoryInv, ResumeInv, NEW i \in Imports, Open(i) \/ MarkProgress(i)
  PROVE  /\ ResumeInv'
         /\ checkpoint # NoCheckpoint =>
              \A s \in checkpoint.completed \ checkpoint'.completed : Forgets(i, s)
<1>0. /\ import[i] \in ImportTypes /\ Working(i) /\ import[i].pc # "begun"
      /\ ImportTrue(import[i], exposed, imported, checkpoint)
  BY ImportShape DEF Open, MarkProgress, Working, AtWork
<1>1. CASE Open(i)
  <2>. DEFINE R == import[i].seasons
              c == Opened(i)
              done == CompletedFor(c, R)
              q == [import[i] EXCEPT !.pc = "fetching", !.done = done, !.mixed = c.mixed]
  <2>1. /\ import' = [import EXCEPT ![i] = q] /\ checkpoint' = c /\ import[i].pc = "opening"
        /\ c \in Checkpoint /\ c # NoCheckpoint /\ c.completed = import[i].done
        /\ Lists(i, import[i].done)
    BY <1>1, OpenedTrue DEF Open, Opened, HistoryInv, HistoryTypeOK
  <2>2. c.completed \cap R \subseteq done  BY <2>1, ListedIsCompleted
  <2>. HIDE DEF c, done
  <2>3. q.pc = "fetching" /\ q.done = done /\ q.seasons = R  BY <1>0 DEF ImportTypes
  <2>. HIDE DEF q
  <2>4. import[i].done \cap q.seasons \subseteq q.done  BY <2>1, <2>2, <2>3
  <2>5. import'[i] # import[i]  BY <2>1, <2>3 DEF HistoryInv, HistoryTypeOK
  <2>6. ResumeInv'  BY <2>1, <2>3, <2>4, ListsResumes
  <2>. QED  BY <1>0, <2>1, <2>5, <2>6, OnlyWriters
<1>2. CASE MarkProgress(i)
  <2>. DEFINE done == import[i].done \cup {NewestLeft(i)}
              c == Progress(i, done)
              q == [import[i] EXCEPT !.pc = "fetching", !.done = done]
  <2>1. /\ import' = [import EXCEPT ![i] = q] /\ checkpoint' = c /\ import[i].pc = "imported"
        /\ c.completed = done /\ import[i].done \subseteq done /\ Lists(i, done)
    BY <1>2 DEF MarkProgress, Progress, HistoryInv, HistoryTypeOK
  <2>. HIDE DEF c, done
  <2>3. q.pc = "fetching" /\ q.done = done  BY <1>0 DEF ImportTypes
  <2>. HIDE DEF q
  <2>4. import'[i] # import[i]  BY <2>1, <2>3 DEF HistoryInv, HistoryTypeOK
  <2>5. ResumeInv'  BY <2>1, <2>3, ListsResumes
  <2>. QED  BY <1>0, <2>1, <2>4, <2>5, OnlyWriters
<1>. QED  BY <1>1, <1>2

LEMMA EndResumes ==
  ASSUME HistoryInv, ResumeInv, NEW i \in Imports,
         MarkExhausted(i) \/ MarkFailed(i) \/ Finish(i) \/ Die(i) \/ GiveUp(i)
         \/ \E R \in Requests : Request(i, R)
  PROVE  /\ ResumeInv'
         /\ checkpoint # NoCheckpoint =>
              \A s \in checkpoint.completed \ checkpoint'.completed : Forgets(i, s)
<1>0. /\ import[i] \in ImportTypes /\ import[i].seasons \in SUBSET Seasons
      /\ import[i].tries \in 0..MaxTries /\ import[i].mixed \in BOOLEAN
      /\ ImportTrue(import[i], exposed, imported, checkpoint)
      /\ checkpoint \in Checkpoint \cup {NoCheckpoint}
  BY ImportShape DEF ImportTypes, HistoryInv, HistoryTypeOK
<1>1. PICK q : import' = [import EXCEPT ![i] = q] /\ q.pc \in {"due", "answered", "gaveup"}
  <2>1. \E q : /\ import' = [import EXCEPT ![i] = q]
               /\ \/ q \in {Due(i), Ended(i, "gaveup"), Ended(i, "answered")}
                  \/ \E R \in Requests : q = [NoImport EXCEPT !.pc = "due", !.seasons = R]
    BY DEF MarkExhausted, MarkFailed, Finish, Die, GiveUp, Request
  <2>2. /\ Due(i).pc = "due" /\ Ended(i, "gaveup").pc = "gaveup"
        /\ Ended(i, "answered").pc = "answered"
    <3>1. AtRest(Due(i), import[i].seasons, "due")  BY <1>0, ResetShape DEF Due
    <3>2. /\ AtRest(Ended(i, "gaveup"), import[i].seasons, "gaveup")
          /\ AtRest(Ended(i, "answered"), import[i].seasons, "answered")
      BY EndedShape
    <3>. QED  BY <3>1, <3>2 DEF AtRest
  <2>3. \A R \in Requests : [NoImport EXCEPT !.pc = "due", !.seasons = R].pc = "due"
    <3>. TAKE R \in Requests
    <3>1. R \in SUBSET Seasons  BY HistoryConstants
    <3>2. AtRest([NoImport EXCEPT !.pc = "due", !.seasons = R], R, "due")  BY <3>1, ResetShape
    <3>. QED  BY <3>2 DEF AtRest
  <2>. QED  BY <2>1, <2>2, <2>3
<1>2. CASE MarkExhausted(i)
  <2>1. Working(i) /\ import[i].pc = "empty" /\ Lists(i, import[i].done)
    BY <1>2 DEF MarkExhausted, Working, AtWork
  <2>2. checkpoint \in Checkpoint  BY <1>0, <2>1 DEF ImportTrue, AtWork
  <2>3. checkpoint'.completed = import[i].done  BY <1>2, <2>2 DEF MarkExhausted, Checkpoint
  <2>4. ResumeInv'  BY <1>1, <2>1, <2>3, ListsResumes DEF AtWork
  <2>5. import'[i] # import[i]  BY <1>1, <2>1 DEF HistoryInv, HistoryTypeOK
  <2>. QED  BY <2>1, <2>3, <2>4, <2>5, OnlyWriters
<1>3. CASE ~MarkExhausted(i)
  <2>1. checkpoint' # NoCheckpoint =>
          /\ checkpoint # NoCheckpoint
          /\ checkpoint'.completed = checkpoint.completed /\ checkpoint'.start = checkpoint.start
    <3>1. CASE MarkFailed(i)
      <4>1. checkpoint \in Checkpoint  BY <1>0, <3>1 DEF MarkFailed, ImportTrue, AtWork
      <4>2. checkpoint # NoCheckpoint  BY <4>1, HistoryConstants
      <4>. QED  BY <3>1, <4>1, <4>2 DEF MarkFailed, Checkpoint
    <3>2. CASE ~MarkFailed(i)
      BY <1>3, <3>2 DEF Finish, Die, GiveUp, Request
    <3>. QED  BY <3>1, <3>2
  <2>2. UNCHANGED missed \/ Forget(i)
    BY <1>3 DEF MarkFailed, Finish, Die, GiveUp, Request
  <2>3. ResumeInv'  BY <1>1, <2>1, <2>2, StaysResumes DEF Resumed, AtWork
  <2>4. checkpoint # NoCheckpoint => checkpoint'.completed = checkpoint.completed
    BY <1>0, <1>3 DEF MarkFailed, Finish, Die, GiveUp, Request, Checkpoint
  <2>. QED  BY <2>3, <2>4
<1>. QED  BY <1>2, <1>3

LEMMA WorkResumes ==
  ASSUME HistoryInv, ResumeInv, NEW i \in Imports, Begin(i) \/ FetchSeason(i) \/ Persist(i)
  PROVE  ResumeInv'
<1>1. import[i] \in ImportTypes /\ UNCHANGED <<checkpoint, missed>>
  BY ImportShape DEF Begin, FetchSeason, Persist
<1>2. CASE Begin(i)
  <2>1. PICK force \in BOOLEAN :
          import' = [import EXCEPT ![i].pc = "begun", ![i].force = force, ![i].tries = @ + 1]
    BY <1>2 DEF Begin
  <2>. DEFINE q == [import[i] EXCEPT !.pc = "begun", !.force = force, !.tries = @ + 1]
  <2>2. import' = [import EXCEPT ![i] = q] /\ q.pc = "begun"
    BY <1>1, <2>1 DEF ImportTypes, HistoryInv, HistoryTypeOK
  <2>. HIDE DEF q
  <2>. QED  BY <1>1, <2>2, StaysResumes DEF Resumed
<1>3. CASE FetchSeason(i) \/ Persist(i)
  <2>1. \E pc : import' = [import EXCEPT ![i].pc = pc] /\ pc # "opening"
    BY <1>3 DEF FetchSeason, Persist
  <2>2. PICK pc : import' = [import EXCEPT ![i].pc = pc] /\ pc # "opening"  BY <2>1
  <2>. DEFINE q == [import[i] EXCEPT !.pc = pc]
  <2>3. import' = [import EXCEPT ![i] = q]  BY <2>2
  <2>4. q.done = import[i].done /\ q.seasons = import[i].seasons
    BY <1>1 DEF ImportTypes
  <2>. HIDE DEF q
  <2>5. import[i].pc \in AtWork \ {"begun", "opening"}
    BY <1>3 DEF FetchSeason, Persist, AtWork
  <2>6. Resumed(q, checkpoint, missed[i])  BY <2>4, <2>5 DEF ResumeInv, Resumed
  <2>. QED  BY <1>1, <2>3, <2>6, StaysResumes
<1>. QED  BY <1>2, <1>3

LEMMA StepResumes ==
  ASSUME HistoryInv, ResumeInv, [HistoryNext]_historyVars
  PROVE  /\ ResumeInv'
         /\ checkpoint # NoCheckpoint =>
              \A s \in checkpoint.completed \ checkpoint'.completed :
                \E i \in Imports : Forgets(i, s)
<1>1. CASE UNCHANGED historyVars
  BY <1>1 DEF historyVars, ResumeInv, Resumed
<1>2. ASSUME NEW i \in Imports, Begin(i) \/ ReadCheckpoint(i) \/ FetchSeason(i) \/ Persist(i)
      PROVE  ResumeInv' /\ checkpoint' = checkpoint
  <2>1. ResumeInv'  BY <1>2, ReadResumes, WorkResumes
  <2>2. checkpoint' = checkpoint  BY <1>2 DEF Begin, ReadCheckpoint, FetchSeason, Persist
  <2>. QED  BY <2>1, <2>2
<1>3. ASSUME NEW i \in Imports, Open(i) \/ MarkProgress(i)
      PROVE  /\ ResumeInv'
             /\ checkpoint # NoCheckpoint =>
                  \A s \in checkpoint.completed \ checkpoint'.completed : Forgets(i, s)
  BY <1>3, WriteResumes
<1>4. ASSUME NEW i \in Imports,
             MarkExhausted(i) \/ MarkFailed(i) \/ Finish(i) \/ Die(i) \/ GiveUp(i)
             \/ \E R \in Requests : Request(i, R)
      PROVE  /\ ResumeInv'
             /\ checkpoint # NoCheckpoint =>
                  \A s \in checkpoint.completed \ checkpoint'.completed : Forgets(i, s)
  BY <1>4, EndResumes
<1>. QED  BY <1>1, <1>2, <1>3, <1>4 DEF HistoryNext, Step

\* What the checkpoint lists is forgotten by an import that does not ask for it, that opens
\* the checkpoint anew, or that had last read or written it before another import listed
\* the season, and by no failure, death or other overlap (Reusable, completedSeasonsFor
\* and the marks of historical-import.ts).
THEOREM ProgressIsKept == HistorySpec => ProgressKept
<1>1. HistoryInit => ResumeInv
  BY DEF HistoryInit, ResumeInv, Resumed, NoImport, AtWork
<1>2. HistoryInv /\ ResumeInv /\ [HistoryNext]_historyVars => ResumeInv'
  BY StepResumes
<1>3. HistorySpec => [](HistoryInv /\ ResumeInv)
  BY <1>1, <1>2, HistoryInvariant, PTL DEF HistorySpec
<1>4. HistoryInv /\ ResumeInv /\ [HistoryNext]_historyVars =>
        [checkpoint # NoCheckpoint =>
           \A s \in checkpoint.completed \ checkpoint'.completed :
             \E i \in Imports :
               /\ import'[i] # import[i]
               /\ \/ s \notin import[i].seasons
                  \/ import[i].pc = "opening" /\ (import[i].force \/ Replaced(i))
                  \/ s \in missed[i]]_historyVars
  BY StepResumes DEF Forgets
<1>. QED  BY <1>3, <1>4, PTL DEF HistorySpec, ProgressKept
=============================================================================
