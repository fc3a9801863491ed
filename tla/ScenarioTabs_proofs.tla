------------------------ MODULE ScenarioTabs_proofs ------------------------
(***************************************************************************)
(* Proofs about the windows of the editor, for any number of windows,      *)
(* scenarios and acts: TypeOK, StaleDraftIsFenced and UnsavedIsKept.       *)
(***************************************************************************)
EXTENDS ScenarioTabs, Integers, FiniteSetTheorems, TLAPS

-----------------------------------------------------------------------------
(* The types of a window's state *)

AutoType ==
    {Idle} \cup [at : {"write"}, id : Ids, dirty : BOOLEAN, live : BOOLEAN, covers : BOOLEAN]
           \cup [at : {"recheck"}, dirty : BOOLEAN]

HydType ==
    {Idle} \cup [at : {"read"}, pin : Ids \cup {NoId}] \cup [at : {"create"}]
           \cup [at : {"net"}, id : Ids, dirty : BOOLEAN, edited : BOOLEAN]
           \cup [at : {"save", "recheck"}, id : Ids, dirty : BOOLEAN, kept : BOOLEAN]

CopyType == [gen : 0..MaxGeneration, of : Nat, dirty : BOOLEAN]

ChainType ==
    [at : MainStages, target : Ids, new : BOOLEAN, out : Ids \cup {NoId}, of : Nat,
     dirty : BOOLEAN, wasDirty : BOOLEAN, canRestore : BOOLEAN, copy : CopyType,
     removing : Ids \cup {NoId}, tries : Int]

MainType == {Idle} \cup ChainType

Losses == {"settled", "loose", "refused", "closed"}

TabType ==
    [cur : Ids \cup {NoId}, gen : 0..MaxGeneration, of : Nat, dirty : BOOLEAN,
     unsaved : BOOLEAN, loose : BOOLEAN, orphan : BOOLEAN, hydrated : BOOLEAN,
     due : BOOLEAN,
     auto : AutoType, hyd : HydType, main : MainType,
     undo : Store!Deletions \cup {Nothing},
     lost : SUBSET Losses, returned : BOOLEAN]

(* The store agrees with itself, and its generations count the epochs. *)
StoreOK ==
    /\ scenario \in [Ids -> Store!Records \cup {Nothing}]
    /\ generation \in [Ids -> 0..MaxGeneration] /\ tombstone \in [Ids -> 0..MaxGeneration]
    /\ active \in Ids \cup {NoId}
    /\ epoch = generation
    /\ \A id \in Ids :
        /\ Stored(id) => tombstone[id] = 0 /\ scenario[id].generation = generation[id]
        /\ tombstone[id] # 0 => tombstone[id] = generation[id]

-----------------------------------------------------------------------------
(* The inductive invariant of a window t, for the generations g in force *)

(* The draft has the generation of the epoch it was read in, or is fenced. *)
Draft(t, g) ==
    t.cur # NoId =>
        /\ t.gen <= g[t.cur]
        /\ t.returned \/ t.of = t.gen \/ t.gen < g[t.cur]

(* A write under way is never ahead of the store. *)
Writing(t, g) ==
    /\ t.auto.at = "write" => t.gen <= g[t.auto.id]
    /\ t.hyd.at = "save" => t.gen <= g[t.hyd.id]
    /\ t.main.at \in {"prev", "out"} => t.gen <= g[t.main.out]
    /\ t.main.at = "keep" => t.gen <= g[t.main.target]

(* Nor is the copy an opening works on. *)
Copied(t, g) ==
    /\ t.main.at \in {"prev", "out", "outrecheck", "get", "keep", "switch"}
           => t.main.copy.gen = 0 /\ t.main.copy.of = 0
    /\ t.main.at \in {"put", "point"}
           => t.main.copy.gen <= g[t.main.target] /\ t.main.copy.of = t.main.copy.gen
    /\ t.main.at = "back" => t.main.copy.gen <= g[t.main.out]

(* What a procedure left behind for its next stage. *)
Shape(t) ==
    /\ t.main.at \in {"prev", "out", "outrecheck", "back"} => t.main.out # NoId
    /\ t.main.at \in {"prev", "out"} => t.cur \in {NoId, t.main.out}
    /\ t.main.at \in {"keep", "switch", "delete", "recover"} => t.main.removing # NoId
    /\ t.main.at = "keep" =>
           t.cur = NoId /\ t.main.target = t.main.removing /\ t.hyd.at # "read"
    /\ t.hyd.at = "read" /\ t.main.at \in {"prev", "out"} => t.hyd.pin = t.main.out
    /\ t.hyd.at = "read" /\ t.cur # NoId => t.hyd.pin = t.cur
    /\ t.hyd.at = "read" /\ t.hyd.pin = NoId => t.cur = NoId /\ t.main = Idle
    /\ t.hyd.at = "create" => t.cur = NoId /\ t.main = Idle /\ ~t.orphan

(* The draft holds edits that are nowhere else, whenever they were made.    *)
Edited(t) == t.unsaved \/ t.loose

(* An edited draft is dirty, and a hydration knows of edits made meanwhile. *)
Marked(t) ==
    Edited(t) => /\ t.dirty
                 /\ t.hyd.at = "net" /\ t.cur = t.hyd.id => t.hyd.edited

(* The autosave effect has a scenario; an edited draft has an autosave to   *)
(* come, or one under way that covers it or will keep it.                   *)
Watched(t) ==
    t.due \/ t.auto.at = "recheck" \/ (t.auto.at = "write" /\ t.auto.live)
        => t.cur # NoId

KeptByAuto(t) ==
    Edited(t) =>
        /\ t.auto.at = "recheck" => t.auto.dirty
        /\ t.auto.at = "write" /\ t.auto.live => t.auto.dirty
        /\ t.cur # NoId => \/ t.due \/ t.auto.at = "recheck"
                           \/ t.auto.at = "write" /\ t.auto.live /\ t.auto.covers

(* Neither a hydration nor a chain takes an unsaved draft away.             *)
KeptByHyd(t) ==
    t.unsaved =>
        /\ t.hyd.at \in {"save", "recheck"} /\ t.cur = t.hyd.id => t.hyd.kept
        /\ t.hyd.at = "read" => t.hyd.pin = NoId

Chained(t) ==
    t.unsaved =>
        /\ t.main = Idle => t.cur # NoId \/ t.orphan
        /\ t.main # Idle => t.main.wasDirty
        /\ t.main.at \in {"get", "put", "point", "catch", "back"} => t.main.out = NoId
        /\ t.main.at \in {"get", "put"} =>
               t.main.removing # NoId \/ (t.main.new /\ t.orphan)
        /\ t.main.at # "switch"
        /\ t.main.at = "point" => t.main.removing # NoId

Fenced(t, g) == Draft(t, g) /\ Writing(t, g) /\ Copied(t, g)

(* Without the effects, with those of the autosave, and with all. *)
Base(t, g) ==
    /\ t \in TabType
    /\ Fenced(t, g) /\ Shape(t) /\ Marked(t)
    /\ "settled" \notin t.lost /\ KeptByHyd(t)

Effect(t) == Watched(t) /\ KeptByAuto(t)

WindowOK(t, g) == Base(t, g) /\ Effect(t) /\ Chained(t)

IInv ==
    /\ StoreOK
    /\ tab \in [Windows -> TabType]
    /\ \A w \in Windows : WindowOK(tab[w], generation)
    /\ notices \in [Windows -> SUBSET Ids] /\ acts \in 0..MaxActs

Generations == [Ids -> 0..MaxGeneration]

-----------------------------------------------------------------------------
(* The stages *)

LEMMA IdleAt == Idle.at = "idle" /\ Idle \in AutoType /\ Idle \in HydType /\ Idle \in MainType
  BY DEF Idle, AutoType, HydType, MainType

LEMMA AutoIs ==
    ASSUME NEW a \in AutoType
    PROVE  /\ a.at \in {"idle", "write", "recheck"}
           /\ a.at = "idle" <=> a = Idle
           /\ a.at = "write" => a \in [at : {"write"}, id : Ids, dirty : BOOLEAN,
                                       live : BOOLEAN, covers : BOOLEAN]
           /\ a.at = "recheck" => a \in [at : {"recheck"}, dirty : BOOLEAN]
  BY IdleAt DEF AutoType

LEMMA HydIs ==
    ASSUME NEW h \in HydType
    PROVE  /\ h.at \in {"idle", "read", "create", "net", "save", "recheck"}
           /\ h.at = "idle" <=> h = Idle
           /\ h.at = "read" => h \in [at : {"read"}, pin : Ids \cup {NoId}]
           /\ h.at = "net" => h \in [at : {"net"}, id : Ids, dirty : BOOLEAN, edited : BOOLEAN]
           /\ h.at \in {"save", "recheck"} =>
                  h \in [at : {"save", "recheck"}, id : Ids, dirty : BOOLEAN,
                         kept : BOOLEAN]
  BY IdleAt DEF HydType

LEMMA MainIs ==
    ASSUME NEW m \in MainType
    PROVE  /\ m.at \in MainStages \cup {"idle"}
           /\ m.at = "idle" <=> m = Idle
           /\ m # Idle => m \in ChainType
  BY IdleAt DEF MainType, ChainType, MainStages

-----------------------------------------------------------------------------
(* What the operators on a window's state keep *)

LEMMA Grown ==
    ASSUME NEW g \in Generations, NEW h \in Generations, NEW t,
           \A id \in Ids : g[id] <= h[id],
           WindowOK(t, g)
    PROVE  WindowOK(t, h)
<1>1. Fenced(t, g) /\ t \in TabType /\ Shape(t)
  BY DEF WindowOK, Base
<1> DEFINE m == t.main
<1>2. /\ t.cur \in Ids \cup {NoId} /\ t.gen \in Int /\ t.auto \in AutoType
      /\ t.hyd \in HydType /\ m \in MainType
  BY <1>1 DEF TabType
<1>3. \A id \in Ids : g[id] \in Int /\ h[id] \in Int
  BY DEF Generations
<1>4. Draft(t, h)
  BY <1>1, <1>2, <1>3 DEF Fenced, Draft
<1>5. Writing(t, h)
  <2>1. t.auto.at = "write" => t.auto.id \in Ids
    BY <1>2, AutoIs
  <2>2. t.hyd.at = "save" => t.hyd.id \in Ids
    BY <1>2, HydIs
  <2>3. m.at \in {"prev", "out"} => m.out \in Ids
    BY <1>1, <1>2, MainIs, IdleAt DEF Shape, ChainType
  <2>4. m.at = "keep" => m.target \in Ids
    BY <1>2, MainIs, IdleAt DEF ChainType
  <2> QED BY <1>1, <1>2, <1>3, <2>1, <2>2, <2>3, <2>4 DEF Fenced, Writing
<1>6. Copied(t, h)
  <2>1. m.at \in {"put", "point"} => m.target \in Ids /\ m.copy.gen \in Int
    BY <1>2, MainIs, IdleAt DEF ChainType, CopyType
  <2>2. m.at = "back" => m.out \in Ids /\ m.copy.gen \in Int
    BY <1>1, <1>2, MainIs, IdleAt DEF Shape, ChainType, CopyType
  <2> QED BY <1>1, <1>3, <2>1, <2>2 DEF Fenced, Copied
<1> QED BY <1>1, <1>4, <1>5, <1>6 DEF WindowOK, Base, Fenced

LEMMA TouchedOK ==
    ASSUME NEW g, NEW t, Base(t, g)
    PROVE  /\ Base(Touched(t), g) /\ Effect(Touched(t))
           /\ \A f \in {"cur", "gen", "of", "dirty", "unsaved", "orphan", "hydrated", "hyd",
                        "main", "undo", "loose", "lost", "returned"} :
                  Touched(t)[f] = t[f]
           /\ Touched(t).auto.at = "write" =>
                  t.auto.at = "write" /\ Touched(t).auto.id = t.auto.id
<1> DEFINE a == IF t.auto.at = "write" THEN [t.auto EXCEPT !.live = FALSE] ELSE Idle
           u == Touched(t)
<1>0. t \in TabType /\ t.auto \in AutoType
  BY DEF Base, TabType
<1>1. /\ a \in AutoType /\ a.at # "recheck"
      /\ a.at = "write" => t.auto.at = "write" /\ a.id = t.auto.id /\ a.live = FALSE
  <2>1. CASE t.auto.at = "write"
    <3>1. /\ t.auto.id \in Ids /\ t.auto.dirty \in BOOLEAN /\ t.auto.covers \in BOOLEAN
          /\ a = [at |-> "write", id |-> t.auto.id, dirty |-> t.auto.dirty, live |-> FALSE,
                  covers |-> t.auto.covers]
      BY <1>0, <2>1, AutoIs
    <3> HIDE DEF a
    <3> QED BY <2>1, <3>1 DEF AutoType
  <2>2. CASE t.auto.at # "write"
    BY <2>2, IdleAt
  <2> QED BY <2>1, <2>2
<1>2. u = [t EXCEPT !.due = t.cur # NoId, !.auto = a]
  BY DEF Touched
<1> HIDE DEF a
<1>3. /\ u \in TabType
      /\ u.due = (t.cur # NoId) /\ u.auto = a
      /\ u.cur = t.cur /\ u.gen = t.gen /\ u.of = t.of /\ u.dirty = t.dirty
      /\ u.unsaved = t.unsaved /\ u.orphan = t.orphan /\ u.hydrated = t.hydrated
      /\ u.hyd = t.hyd /\ u.main = t.main /\ u.undo = t.undo /\ u.lost = t.lost
      /\ u.loose = t.loose /\ u.returned = t.returned
  BY <1>0, <1>1, <1>2 DEF TabType
<1> HIDE DEF u
<1>4. Fenced(u, g)
  BY <1>1, <1>3 DEF Base, Fenced, Draft, Writing, Copied
<1>5. Shape(u) /\ Marked(u) /\ "settled" \notin u.lost /\ KeptByHyd(u)
  BY <1>3 DEF Base, Shape, Marked, Edited, KeptByHyd
<1>6. Effect(u)
  BY <1>1, <1>3 DEF Effect, Watched, KeptByAuto, Edited
<1> QED BY <1>1, <1>3, <1>4, <1>5, <1>6 DEF Base, u

LEMMA Touching ==
    ASSUME NEW g, NEW t, Base(t, g), Chained(t)
    PROVE  WindowOK(Touched(t), g)
<1>1. /\ Base(Touched(t), g) /\ Effect(Touched(t))
      /\ Touched(t).unsaved = t.unsaved /\ Touched(t).cur = t.cur
      /\ Touched(t).orphan = t.orphan /\ Touched(t).main = t.main
  BY TouchedOK
<1> QED BY <1>1 DEF WindowOK, Chained

(* Only the autosave's own fields change. *)
LEMMA Unaffected ==
    ASSUME NEW g, NEW t, NEW u \in TabType, Base(t, g), Chained(t),
           \A f \in {"cur", "gen", "of", "dirty", "unsaved", "orphan", "hyd", "main",
                     "loose", "lost", "returned"} : u[f] = t[f],
           u.auto.at = "write" => t.gen <= g[u.auto.id]
    PROVE  Base(u, g) /\ Chained(u)
<1>1. /\ u.cur = t.cur /\ u.gen = t.gen /\ u.of = t.of /\ u.dirty = t.dirty
      /\ u.unsaved = t.unsaved /\ u.orphan = t.orphan /\ u.hyd = t.hyd /\ u.main = t.main
      /\ u.lost = t.lost /\ u.loose = t.loose /\ u.returned = t.returned
  OBVIOUS
<1>2. Fenced(u, g)
  BY <1>1 DEF Base, Fenced, Draft, Writing, Copied
<1>3. Shape(u) /\ Marked(u) /\ "settled" \notin u.lost /\ KeptByHyd(u)
  BY <1>1 DEF Base, Shape, Marked, Edited, KeptByHyd
<1>4. Chained(u)
  BY <1>1 DEF Chained
<1> QED BY <1>2, <1>3, <1>4 DEF Base

LEMMA Detaching ==
    ASSUME NEW g, NEW t, Base(t, g)
    PROVE  /\ Base(Detached(t), g) /\ Effect(Detached(t))
           /\ Detached(t).cur = NoId
           /\ \A f \in {"gen", "of", "dirty", "unsaved", "orphan", "hydrated", "hyd", "main",
                        "undo", "loose", "lost", "returned"} :
                  Detached(t)[f] = t[f]
           /\ Detached(t).auto.at = "write" =>
                  t.auto.at = "write" /\ Detached(t).auto.id = t.auto.id
<1> DEFINE u == [t EXCEPT !.cur = NoId]
<1>0. t \in TabType /\ t.hyd \in HydType
  BY DEF Base, TabType
<1>1. /\ u \in TabType /\ u.cur = NoId
      /\ u.gen = t.gen /\ u.of = t.of /\ u.dirty = t.dirty /\ u.auto = t.auto
      /\ u.unsaved = t.unsaved /\ u.orphan = t.orphan /\ u.hydrated = t.hydrated
      /\ u.hyd = t.hyd /\ u.main = t.main /\ u.undo = t.undo /\ u.lost = t.lost /\ u.loose = t.loose
      /\ u.returned = t.returned
  BY <1>0 DEF TabType
<1> HIDE DEF u
<1>2. Fenced(u, g)
  BY <1>1 DEF Base, Fenced, Draft, Writing, Copied
<1>3. Shape(u)
  BY <1>1 DEF Base, Shape
<1>4. t.hyd.at \in {"net", "save", "recheck"} => t.hyd.id # NoId
  BY <1>0, HydIs, TabsAssumption
<1>5. Marked(u) /\ "settled" \notin u.lost /\ KeptByHyd(u)
  BY <1>1, <1>4 DEF Base, Marked, Edited, KeptByHyd
<1>6. Base(u, g)
  BY <1>1, <1>2, <1>3, <1>5 DEF Base
<1>7. Detached(t) = Touched(u)
  BY DEF Detached, u
<1> QED BY <1>1, <1>6, <1>7, TouchedOK

LEMMA Orphaning ==
    ASSUME NEW g, NEW t, Base(t, g), Chained(t), t.hyd.at # "create"
    PROVE  WindowOK(Orphaned(t), g)
<1> DEFINE u == [t EXCEPT !.orphan = TRUE, !.dirty = TRUE]
<1>0. t \in TabType
  BY DEF Base, TabType
<1>1. /\ u \in TabType /\ u.orphan = TRUE /\ u.dirty = TRUE
      /\ u.cur = t.cur /\ u.gen = t.gen /\ u.of = t.of /\ u.auto = t.auto
      /\ u.unsaved = t.unsaved /\ u.hydrated = t.hydrated
      /\ u.hyd = t.hyd /\ u.main = t.main /\ u.undo = t.undo /\ u.lost = t.lost /\ u.loose = t.loose
      /\ u.returned = t.returned
  BY <1>0 DEF TabType
<1> HIDE DEF u
<1>2. Base(u, g)
  BY <1>1 DEF Base, Fenced, Draft, Writing, Copied, Shape, Marked, Edited, KeptByHyd
<1>3. Chained(u)
  BY <1>1 DEF Chained
<1>4. Orphaned(t) = Detached(u)
  BY DEF Orphaned, u
<1>5. Base(Orphaned(t), g) /\ Effect(Orphaned(t))
  BY <1>2, <1>4, Detaching
<1>6. /\ Orphaned(t).unsaved = u.unsaved /\ Orphaned(t).main = u.main
      /\ Orphaned(t).orphan = u.orphan
  BY <1>2, <1>4, Detaching
<1>7. Chained(Orphaned(t))
  BY <1>1, <1>3, <1>6 DEF Chained
<1> QED BY <1>5, <1>7 DEF WindowOK

LEMMA ReplacedIs ==
    ASSUME NEW t \in TabType
    PROVE  /\ Replaced(t) \in TabType
           /\ Replaced(t) =
                [t EXCEPT !.lost = t.lost \cup Unkept(t), !.unsaved = FALSE,
                          !.loose = FALSE, !.returned = FALSE, !.due = t.cur # NoId,
                          !.auto = IF t.auto.at = "write"
                                   THEN [t.auto EXCEPT !.covers = FALSE, !.live = FALSE]
                                   ELSE Idle]
           /\ \A f \in {"cur", "gen", "of", "dirty", "orphan", "hydrated", "hyd", "main",
                        "undo"} : Replaced(t)[f] = t[f]
           /\ Replaced(t).unsaved = FALSE /\ Replaced(t).loose = FALSE
           /\ Replaced(t).returned = FALSE
           /\ Replaced(t).lost = t.lost \cup Unkept(t)
           /\ Replaced(t).due = (t.cur # NoId)
           /\ Replaced(t).auto.at # "recheck"
           /\ Replaced(t).auto.at = "write" =>
                  /\ t.auto.at = "write" /\ Replaced(t).auto.id = t.auto.id
                  /\ ~Replaced(t).auto.live
<1> DEFINE a == IF t.auto.at = "write"
                THEN [t.auto EXCEPT !.covers = FALSE, !.live = FALSE] ELSE Idle
           b == IF t.auto.at = "write" THEN [t.auto EXCEPT !.covers = FALSE] ELSE t.auto
           c == IF b.at = "write" THEN [b EXCEPT !.live = FALSE] ELSE Idle
           u == [t EXCEPT !.lost = t.lost \cup Unkept(t), !.unsaved = FALSE,
                          !.loose = FALSE, !.returned = FALSE, !.auto = b]
<1>1. /\ a = c /\ a \in AutoType /\ b \in AutoType /\ a.at # "recheck"
      /\ a.at = "write" => t.auto.at = "write" /\ a.id = t.auto.id /\ ~a.live
  <2>0. t.auto \in AutoType
    BY DEF TabType
  <2>1. CASE t.auto.at = "write"
    <3>1. t.auto \in [at : {"write"}, id : Ids, dirty : BOOLEAN, live : BOOLEAN,
                      covers : BOOLEAN]
      BY <2>0, <2>1, AutoIs
    <3>2. b = [at |-> "write", id |-> t.auto.id, dirty |-> t.auto.dirty,
               live |-> t.auto.live, covers |-> FALSE]
      BY <2>1, <3>1
    <3>3. a = [at |-> "write", id |-> t.auto.id, dirty |-> t.auto.dirty,
               live |-> FALSE, covers |-> FALSE]
      BY <2>1, <3>1
    <3> HIDE DEF a, b
    <3>4. c = [at |-> "write", id |-> t.auto.id, dirty |-> t.auto.dirty,
               live |-> FALSE, covers |-> FALSE]
      BY <3>2
    <3> QED BY <2>1, <3>1, <3>2, <3>3, <3>4 DEF AutoType
  <2>2. CASE t.auto.at # "write"
    BY <2>0, <2>2, IdleAt
  <2> QED BY <2>1, <2>2
<1>2. Replaced(t) = [u EXCEPT !.due = u.cur # NoId,
                             !.auto = IF u.auto.at = "write" THEN [u.auto EXCEPT !.live = FALSE]
                                      ELSE Idle]
  BY DEF Replaced, Touched
<1> HIDE DEF a, b
<1>3. /\ u \in TabType /\ u.auto = b /\ u.cur = t.cur
  <2>1. t.lost \cup Unkept(t) \in SUBSET Losses
    BY DEF TabType, Unkept, Losses
  <2> QED BY <1>1, <2>1 DEF TabType
<1>4. Replaced(t) = [u EXCEPT !.due = t.cur # NoId, !.auto = a]
  BY <1>1, <1>2, <1>3
<1> DEFINE l == t.lost \cup Unkept(t)
           d == t.cur # NoId
<1>5. Replaced(t) = [t EXCEPT !.lost = l, !.unsaved = FALSE, !.loose = FALSE,
                              !.returned = FALSE, !.due = d, !.auto = a]
  BY <1>3, <1>4 DEF TabType
<1>6. l \in SUBSET Losses /\ d \in BOOLEAN
  BY DEF TabType, Unkept, Losses
<1> HIDE DEF l, d
<1>7. /\ Replaced(t) \in TabType
      /\ \A f \in {"cur", "gen", "of", "dirty", "orphan", "hydrated", "hyd", "main",
                   "undo"} : Replaced(t)[f] = t[f]
      /\ Replaced(t).unsaved = FALSE /\ Replaced(t).loose = FALSE
      /\ Replaced(t).returned = FALSE
      /\ Replaced(t).lost = l /\ Replaced(t).due = d /\ Replaced(t).auto = a
  BY <1>1, <1>5, <1>6 DEF TabType
<1> QED BY <1>1, <1>5, <1>7 DEF a, l, d

(* A draft that has nothing to lose makes room for another one, which may   *)
(* be one that returned.                                                    *)
LEMMA Replacing ==
    ASSUME NEW g, NEW t \in TabType, NEW r \in BOOLEAN, Fenced(t, g), Shape(t),
           t.cur # NoId => r \/ t.of = t.gen \/ t.gen < g[t.cur],
           "settled" \notin t.lost /\ ~t.unsaved /\ KeptByHyd(t)
    PROVE  /\ WindowOK([Replaced(t) EXCEPT !.returned = r], g)
           /\ [Replaced(t) EXCEPT !.returned = r].main = t.main
           /\ [Replaced(t) EXCEPT !.returned = r].unsaved = FALSE
           /\ ~r => WindowOK(Replaced(t), g)
<1> DEFINE v == Replaced(t)
           u == [v EXCEPT !.returned = r]
<1>1. /\ v \in TabType
      /\ \A f \in {"cur", "gen", "of", "dirty", "orphan", "hydrated", "hyd", "main",
                   "undo"} : v[f] = t[f]
      /\ v.unsaved = FALSE /\ v.loose = FALSE /\ v.returned = FALSE
      /\ v.lost = t.lost \cup Unkept(t)
      /\ v.due = (t.cur # NoId)
      /\ v.auto.at # "recheck"
      /\ v.auto.at = "write" =>
             t.auto.at = "write" /\ v.auto.id = t.auto.id /\ ~v.auto.live
  BY ReplacedIs
<1> HIDE DEF v
<1>2. /\ u \in TabType /\ u.returned = r /\ u.unsaved = FALSE /\ u.loose = FALSE
      /\ u.lost = t.lost \cup Unkept(t)
      /\ u.auto = v.auto /\ u.due = (t.cur # NoId)
      /\ u.cur = t.cur /\ u.gen = t.gen /\ u.of = t.of /\ u.dirty = t.dirty
      /\ u.orphan = t.orphan /\ u.hyd = t.hyd /\ u.main = t.main
      /\ ~r => u = v
  BY <1>1 DEF TabType
<1> HIDE DEF u
<1>3. Fenced(u, g)
  BY <1>1, <1>2 DEF Fenced, Draft, Writing, Copied
<1>4. Shape(u) /\ Marked(u)
  BY <1>2 DEF Shape, Marked, Edited
<1>5. "settled" \notin u.lost /\ KeptByHyd(u)
  BY <1>2 DEF KeptByHyd, Unkept
<1>6. Effect(u) /\ Chained(u)
  <2>1. u.due => t.cur # NoId
    BY <1>2
  <2>2. u.auto.at # "recheck" /\ ~(u.auto.at = "write" /\ u.auto.live)
    BY <1>1, <1>2
  <2>3. Watched(u)
    BY <1>2, <2>1, <2>2 DEF Watched
  <2> QED BY <1>2, <2>3 DEF Effect, KeptByAuto, Edited, Chained
<1>7. WindowOK(u, g)
  BY <1>2, <1>3, <1>4, <1>5, <1>6 DEF WindowOK, Base
<1> QED BY <1>2, <1>7 DEF u, v

(* It makes no difference whether the hydration starts before or after. *)
LEMMA HydCommutes ==
    ASSUME NEW t \in TabType, NEW h \in HydType
    PROVE  [Replaced(t) EXCEPT !.hyd = h] = Replaced([t EXCEPT !.hyd = h])
<1> DEFINE v == [t EXCEPT !.hyd = h]
           a == IF t.auto.at = "write"
                THEN [t.auto EXCEPT !.covers = FALSE, !.live = FALSE] ELSE Idle
           l == t.lost \cup Unkept(t)
           d == t.cur # NoId
<1>1. /\ v \in TabType /\ v.auto = t.auto /\ v.lost = t.lost
      /\ Unkept(v) = Unkept(t) /\ v.cur = t.cur
  BY DEF TabType, Unkept
<1>2. Replaced(t) = [t EXCEPT !.lost = l, !.unsaved = FALSE, !.loose = FALSE,
                              !.returned = FALSE, !.due = d, !.auto = a]
  BY ReplacedIs
<1>3. Replaced(v) = [v EXCEPT !.lost = l, !.unsaved = FALSE, !.loose = FALSE,
                              !.returned = FALSE, !.due = d, !.auto = a]
  <2> HIDE DEF v
  <2>1. Replaced(v) =
          [v EXCEPT !.lost = v.lost \cup Unkept(v), !.unsaved = FALSE, !.loose = FALSE,
                    !.returned = FALSE, !.due = v.cur # NoId,
                    !.auto = IF v.auto.at = "write"
                             THEN [v.auto EXCEPT !.covers = FALSE, !.live = FALSE]
                             ELSE Idle]
    BY <1>1, ReplacedIs
  <2> QED BY <1>1, <2>1, Zenon
<1> HIDE DEF a, l, d
<1> QED BY <1>2, <1>3 DEF TabType

LEMMA VisibleIs ==
    ASSUME StoreOK, NEW id \in Ids, Visible(id)
    PROVE  /\ scenario[id] \in Store!Records
           /\ scenario[id].generation = generation[id] /\ epoch[id] = generation[id]
           /\ generation[id] \in 0..MaxGeneration /\ scenario[id].dirty \in BOOLEAN
<1>1. scenario[id] \in Store!Records
  BY DEF StoreOK, Visible, Store!Visible, Store!Stored
<1> QED BY <1>1 DEF StoreOK, Visible, Store!Visible, Stored, Store!Stored, Store!Records

(* The window takes the stored draft of a scenario, and hydrates it. *)
LEMMA Loading ==
    ASSUME StoreOK, NEW t \in TabType, NEW id \in Ids, Visible(id), NEW h \in HydType,
           Writing(t, generation), Copied(t, generation), Shape(t),
           t.auto.at # "write", t.hyd.at # "save", t.main.at # "keep",
           t.main.at \in {"prev", "out"} => t.main.out = id,
           h.at = "net" \/ (h.at = "read" /\ h.pin = id),
           "settled" \notin t.lost /\ ~t.unsaved
    PROVE  WindowOK([Loaded(t, id) EXCEPT !.hyd = h], generation)
<1> DEFINE u == [t EXCEPT !.cur = id, !.gen = scenario[id].generation, !.of = epoch[id],
                          !.dirty = scenario[id].dirty]
           v == [u EXCEPT !.hyd = h]
<1>0. id # NoId /\ MaxGeneration \in Nat
  BY TabsAssumption
<1>1. /\ u \in TabType /\ u.cur = id /\ u.gen = generation[id] /\ u.of = generation[id]
      /\ u.unsaved = t.unsaved /\ u.orphan = t.orphan
      /\ u.auto = t.auto /\ u.main = t.main /\ u.lost = t.lost /\ u.loose = t.loose
  <2>1. /\ scenario[id].generation = generation[id] /\ epoch[id] = generation[id]
        /\ generation[id] \in 0..MaxGeneration /\ generation[id] \in Nat
        /\ scenario[id].dirty \in BOOLEAN
    BY <1>0, VisibleIs
  <2> QED BY <2>1 DEF TabType
<1>2. Loaded(t, id) = Replaced(u)
  BY DEF Loaded
<1> HIDE DEF u
<1>3. /\ v \in TabType /\ v.hyd = h
      /\ v.cur = id /\ v.gen = generation[id] /\ v.of = generation[id]
      /\ v.unsaved = t.unsaved /\ v.orphan = t.orphan
      /\ v.auto = t.auto /\ v.main = t.main /\ v.lost = t.lost /\ v.loose = t.loose
  BY <1>1 DEF TabType
<1>4. [Loaded(t, id) EXCEPT !.hyd = h] = Replaced(v)
  BY <1>1, <1>2, HydCommutes
<1> HIDE DEF v
<1>5. Fenced(v, generation)
  <2>1. Draft(v, generation)
    BY <1>0, <1>3, VisibleIs DEF Draft
  <2>2. h.at # "save"
    OBVIOUS
  <2>3. Writing(v, generation)
    BY <1>0, <1>3, <2>2, VisibleIs DEF Writing
  <2>4. Copied(v, generation)
    BY <1>3 DEF Copied
  <2> QED BY <2>1, <2>3, <2>4 DEF Fenced
<1>6. Shape(v)
  BY <1>0, <1>3 DEF Shape
<1>7. "settled" \notin v.lost /\ ~v.unsaved /\ KeptByHyd(v)
  BY <1>3 DEF KeptByHyd
<1>8. PICK r \in BOOLEAN : r = FALSE
  OBVIOUS
<1>9. v.cur # NoId => r \/ v.of = v.gen \/ v.gen < generation[v.cur]
  BY <1>3
<1>10. WindowOK(Replaced(v), generation)
  BY <1>3, <1>5, <1>6, <1>7, <1>8, <1>9, Replacing
<1> QED BY <1>4, <1>10

LEMMA Adopting ==
    ASSUME StoreOK, NEW t, NEW id \in Ids, Visible(id),
           Base(t, generation), t.auto.at # "write", t.hyd.at # "save", t.main.at # "keep",
           t.main.at \in {"prev", "out"} => t.main.out = id,
           ~t.unsaved
    PROVE  WindowOK(Adopted(t, id), generation)
<1> DEFINE h == [at |-> "read", pin |-> id]
<1>1. h \in HydType /\ h.at = "read" /\ h.pin = id
  BY DEF HydType
<1>2. Loaded(t, id).cur = id
  <2>1. t \in TabType
    BY DEF Base
  <2> DEFINE u == [t EXCEPT !.cur = id, !.gen = scenario[id].generation, !.of = epoch[id],
                            !.dirty = scenario[id].dirty]
  <2>2. scenario[id].generation \in 0..MaxGeneration /\ epoch[id] \in Nat
        /\ scenario[id].dirty \in BOOLEAN
    BY VisibleIs, TabsAssumption
  <2>3. u \in TabType /\ u.cur = id
    BY <2>1, <2>2 DEF TabType
  <2>4. Loaded(t, id) = Replaced(u)
    BY DEF Loaded
  <2> HIDE DEF u
  <2>5. Replaced(u).cur = u.cur
    BY <2>3, ReplacedIs
  <2> QED BY <2>3, <2>4, <2>5
<1>3. Adopted(t, id) = [Loaded(t, id) EXCEPT !.hyd = h]
  BY <1>2 DEF Adopted, Rehydrating
<1> HIDE DEF h
<1> QED BY <1>1, <1>3, Loading DEF Base, Fenced

LEMMA HydratingOK ==
    ASSUME StoreOK, NEW t, NEW id \in Ids, Visible(id),
           Base(t, generation), t.auto.at # "write", t.hyd.at # "save", t.main.at # "keep",
           t.main.at \in {"prev", "out"} => t.main.out = id,
           ~t.unsaved
    PROVE  WindowOK(Hydrating(t, id), generation)
<1> DEFINE h == [at |-> "net", id |-> id, dirty |-> scenario[id].dirty, edited |-> FALSE]
<1>1. h \in HydType /\ h.at = "net"
  BY VisibleIs DEF HydType
<1>2. Hydrating(t, id) = [Loaded(t, id) EXCEPT !.hyd = h]
  BY DEF Hydrating
<1> HIDE DEF h
<1> QED BY <1>1, <1>2, Loading DEF Base, Fenced

LEMMA GivingUp ==
    ASSUME StoreOK, NEW t, NEW id \in Ids, NEW keep \in BOOLEAN,
           Base(t, generation), Chained(t), t.cur = id,
           t.auto.at # "write", t.hyd.at # "save",
           (t.unsaved => keep)
    PROVE  WindowOK(GivenUp(t, id, keep), generation)
<1>1. id # NoId
  BY TabsAssumption
<1>2. /\ t.hyd.at # "create" /\ t.main.at # "keep"
      /\ t.main.at \in {"prev", "out"} => t.main.out = id
  BY <1>1 DEF Base, Shape
<1>3. CASE keep \/ ~Visible(id)
  BY <1>2, <1>3, Orphaning DEF GivenUp
<1>4. CASE ~(keep \/ ~Visible(id))
  <2>1. Visible(id) /\ ~t.unsaved
    BY <1>4
  <2>2. WindowOK(Adopted(t, id), generation)
    BY <1>2, <2>1, Adopting
  <2> QED BY <1>4, <2>2 DEF GivenUp
<1> QED BY <1>3, <1>4

(* A hydration ends, whether or not it has hydrated. *)
Halted(t, b) == [t EXCEPT !.hyd = Idle, !.hydrated = b]

LEMMA Halting ==
    ASSUME NEW g, NEW t, Base(t, g), NEW b \in BOOLEAN
    PROVE  /\ Base(Halted(t, b), g)
           /\ Halted(t, b).hyd = Idle
           /\ \A f \in {"cur", "gen", "of", "dirty", "unsaved", "orphan", "due", "auto",
                        "main", "undo", "loose", "lost", "returned"} :
                  Halted(t, b)[f] = t[f]
           /\ Effect(t) => Effect(Halted(t, b))
           /\ Chained(t) => Chained(Halted(t, b))
<1> DEFINE u == Halted(t, b)
<1>0. t \in TabType /\ Idle \in HydType /\ Idle.at = "idle"
  BY IdleAt DEF Base
<1>1. /\ u \in TabType /\ u.hyd = Idle
      /\ u.cur = t.cur /\ u.gen = t.gen /\ u.of = t.of /\ u.auto = t.auto
      /\ u.due = t.due /\ u.dirty = t.dirty
      /\ u.unsaved = t.unsaved /\ u.orphan = t.orphan
      /\ u.main = t.main /\ u.undo = t.undo /\ u.lost = t.lost /\ u.loose = t.loose
      /\ u.returned = t.returned
  BY <1>0 DEF TabType, Halted
<1> HIDE DEF u
<1>2. Base(u, g)
  BY <1>0, <1>1 DEF Base, Fenced, Draft, Writing, Copied, Shape, Marked, Edited, KeptByHyd
<1>3. Effect(t) => Effect(u)
  BY <1>1 DEF Effect, Watched, KeptByAuto, Edited
<1>4. Chained(t) => Chained(u)
  BY <1>1 DEF Chained
<1> QED BY <1>1, <1>2, <1>3, <1>4 DEF u

LEMMA Unhydrating ==
    ASSUME NEW g, NEW t, Base(t, g)
    PROVE  /\ Base(Offline(t), g)
           /\ Offline(t).hyd = Idle
           /\ \A f \in {"cur", "gen", "of", "dirty", "unsaved", "orphan", "due", "auto",
                        "main", "undo", "loose", "lost", "returned"} :
                  Offline(t)[f] = t[f]
           /\ Effect(t) => Effect(Offline(t))
           /\ Chained(t) => Chained(Offline(t))
<1>1. PICK b \in BOOLEAN : b = TRUE
  OBVIOUS
<1>2. Offline(t) = Halted(t, b)
  BY <1>1 DEF Offline, Halted
<1> QED BY <1>2, Halting

LEMMA Stopping ==  \* a hydration that returns before it has begun
    ASSUME NEW g, NEW t, WindowOK(t, g)
    PROVE  WindowOK([t EXCEPT !.hyd = Idle], g)
<1>0. t \in TabType /\ t.hydrated \in BOOLEAN
  BY DEF WindowOK, Base, TabType
<1>1. [t EXCEPT !.hyd = Idle] = Halted(t, t.hydrated)
  BY <1>0 DEF TabType, Halted
<1> QED BY <1>0, <1>1, Halting DEF WindowOK

(* An opening or a removal ends. *)
LEMMA Finishing ==
    ASSUME NEW g, NEW t, Base(t, g), Effect(t)
    PROVE  WindowOK(Done(t), g)
<1> DEFINE s == IF Homed(t) THEN t ELSE Abandoned(t)
           u == [s EXCEPT !.main = Idle]
<1>0. t \in TabType /\ Idle \in MainType /\ Idle.at = "idle"
  BY IdleAt DEF Base
<1>1. /\ s \in TabType
      /\ s.cur = t.cur /\ s.gen = t.gen /\ s.of = t.of /\ s.auto = t.auto /\ s.hyd = t.hyd
      /\ s.due = t.due /\ s.dirty = t.dirty /\ s.orphan = t.orphan /\ s.loose = t.loose
      /\ s.returned = t.returned
      /\ "settled" \notin t.lost => "settled" \notin s.lost
      /\ s.unsaved => t.unsaved /\ (t.cur # NoId \/ t.orphan)
  <2>1. CASE ~Homed(t)
    <3> DEFINE l == IF t.unsaved THEN t.lost \cup {"refused"} ELSE t.lost
    <3>1. l \in SUBSET Losses /\ ("settled" \notin t.lost => "settled" \notin l)
      BY <1>0 DEF TabType, Losses
    <3>2. s = [t EXCEPT !.lost = l, !.unsaved = FALSE]
      BY <2>1 DEF Abandoned
    <3> HIDE DEF s, l
    <3> QED BY <1>0, <3>1, <3>2 DEF TabType
  <2>2. CASE Homed(t)
    BY <1>0, <2>2 DEF Homed
  <2> QED BY <2>1, <2>2
<1>2. Done(t) = u
  BY DEF Done
<1> HIDE DEF s
<1>3. /\ u \in TabType /\ u.main = Idle
      /\ u.cur = t.cur /\ u.gen = t.gen /\ u.of = t.of /\ u.auto = t.auto /\ u.hyd = t.hyd
      /\ u.due = t.due /\ u.dirty = t.dirty /\ u.orphan = t.orphan /\ u.loose = t.loose
      /\ u.returned = t.returned
      /\ "settled" \notin t.lost => "settled" \notin u.lost
      /\ u.unsaved => t.unsaved /\ (t.cur # NoId \/ t.orphan)
  BY <1>0, <1>1 DEF TabType
<1> HIDE DEF u
<1>4. Base(u, g)
  <2>1. Fenced(u, g)
    BY <1>0, <1>3 DEF Base, Fenced, Draft, Writing, Copied
  <2>2. Shape(u)
    BY <1>0, <1>3 DEF Base, Shape
  <2>3. Marked(u)
    BY <1>3 DEF Base, Marked, Edited
  <2>4. "settled" \notin u.lost /\ KeptByHyd(u)
    BY <1>3 DEF Base, KeptByHyd
  <2> QED BY <1>3, <2>1, <2>2, <2>3, <2>4 DEF Base
<1>5. Effect(u)
  BY <1>3 DEF Effect, Watched, KeptByAuto, Edited
<1>6. Chained(u)
  BY <1>0, <1>3 DEF Chained
<1> QED BY <1>2, <1>4, <1>5, <1>6 DEF WindowOK

LEMMA Going ==
    ASSUME NEW t \in TabType, t.main # Idle, NEW stage \in MainStages
    PROVE  /\ Goes(t, stage) \in TabType
           /\ Goes(t, stage).main \in ChainType /\ Goes(t, stage).main # Idle
           /\ Goes(t, stage).main.at = stage
           /\ \A f \in {"target", "new", "out", "of", "dirty", "wasDirty", "canRestore",
                        "copy", "removing", "tries"} :
                  Goes(t, stage).main[f] = t.main[f]
           /\ \A f \in {"cur", "gen", "of", "dirty", "unsaved", "orphan", "hydrated", "due",
                        "auto", "hyd", "undo", "loose", "lost", "returned"} :
                  Goes(t, stage)[f] = t[f]
<1> DEFINE m == [t.main EXCEPT !.at = stage]
<1>1. t.main \in ChainType
  BY MainIs DEF TabType
<1>2. /\ m \in ChainType /\ m.at = stage
      /\ \A f \in {"target", "new", "out", "of", "dirty", "wasDirty", "canRestore",
                   "copy", "removing", "tries"} : m[f] = t.main[f]
  BY <1>1 DEF ChainType
<1>3. Goes(t, stage) = [t EXCEPT !.main = m]
  BY DEF Goes
<1> HIDE DEF m
<1>4. m # Idle
  BY <1>2, IdleAt DEF MainStages
<1> QED BY <1>2, <1>3, <1>4 DEF TabType, MainType

(* An opening is over, and the removal that it is part of goes on. *)
LEMMA Ending ==
    ASSUME NEW g, NEW t, Base(t, g), Effect(t), t.main # Idle, NEW opened \in BOOLEAN,
           (t.unsaved => t.main.wasDirty)
    PROVE  WindowOK(Ended(t, opened), g)
<1>0. t \in TabType
  BY DEF Base
<1>1. ASSUME NEW stage \in {"delete", "recover"}, t.main.removing # NoId
      PROVE  WindowOK(Goes(t, stage), g)
  <2> DEFINE u == Goes(t, stage)
  <2>0. stage \in MainStages
    BY <1>1 DEF MainStages
  <2>1. /\ u \in TabType /\ u.main # Idle /\ u.main.at = stage
        /\ u.main.removing = t.main.removing /\ u.main.wasDirty = t.main.wasDirty
        /\ u.cur = t.cur /\ u.gen = t.gen /\ u.of = t.of /\ u.auto = t.auto
        /\ u.hyd = t.hyd /\ u.due = t.due /\ u.dirty = t.dirty /\ u.orphan = t.orphan
        /\ u.lost = t.lost /\ u.loose = t.loose /\ u.returned = t.returned /\ u.unsaved = t.unsaved
    BY <1>0, <2>0, Going
  <2> HIDE DEF u
  <2>2. Fenced(u, g)
    BY <1>1, <2>1 DEF Base, Fenced, Draft, Writing, Copied
  <2>3. Shape(u)
    BY <1>1, <2>1 DEF Base, Shape
  <2>4. Marked(u) /\ "settled" \notin u.lost /\ KeptByHyd(u)
    BY <2>1 DEF Base, Marked, Edited, KeptByHyd
  <2>5. Effect(u) /\ Chained(u)
    BY <1>1, <2>1 DEF Effect, Watched, KeptByAuto, Edited, Chained
  <2> QED BY <2>1, <2>2, <2>3, <2>4, <2>5 DEF WindowOK, Base, u
<1>2. WindowOK(Done(t), g)
  BY Finishing
<1>3. CASE opened /\ t.main.target # t.main.removing /\ t.main.removing # NoId
  BY <1>1, <1>3 DEF Ended
<1>4. CASE ~(opened /\ t.main.target # t.main.removing /\ t.main.removing # NoId)
  <2>1. CASE ~opened /\ t.main.removing # NoId /\ t.main.tries > 0
    BY <1>1, <1>4, <2>1 DEF Ended
  <2>2. CASE ~(~opened /\ t.main.removing # NoId /\ t.main.tries > 0)
    BY <1>2, <1>4, <2>2 DEF Ended
  <2> QED BY <2>1, <2>2
<1> QED BY <1>3, <1>4

(* The window starts the chain m, having left its scenario. *)
LEMMA Starting ==
    ASSUME NEW g, NEW t, Base(t, g), NEW m \in ChainType,
           m.copy.gen = 0, m.copy.of = 0,
           m.at \in {"prev", "get", "keep"},
           m.at = "prev" => m.out # NoId /\ t.gen <= g[m.out]
                            /\ (t.hyd.at = "read" => t.hyd.pin = m.out),
           m.at = "keep" => /\ m.target = m.removing /\ m.removing # NoId
                            /\ t.gen <= g[m.target] /\ t.hyd.at # "read",
           t.hyd.at = "create" => FALSE,
           t.hyd.at = "read" => t.hyd.pin # NoId,
           t.unsaved => /\ m.wasDirty
                        /\ m.at = "get" => /\ m.out = NoId
                                           /\ m.removing # NoId \/ (m.new /\ t.orphan)
    PROVE  WindowOK([Detached(t) EXCEPT !.main = m], g)
<1> DEFINE d == Detached(t)
           u == [d EXCEPT !.main = m]
<1>1. /\ Base(d, g) /\ Effect(d) /\ d.cur = NoId
      /\ d.gen = t.gen /\ d.hyd = t.hyd /\ d.unsaved = t.unsaved /\ d.orphan = t.orphan
  BY Detaching
<1>2. m # Idle /\ m \in MainType
  BY IdleAt DEF MainType
<1> HIDE DEF d
<1>3. /\ u \in TabType /\ u.main = m
      /\ u.cur = NoId /\ u.gen = d.gen /\ u.of = d.of /\ u.auto = d.auto
      /\ u.hyd = d.hyd /\ u.due = d.due /\ u.dirty = d.dirty /\ u.orphan = d.orphan
      /\ u.lost = d.lost /\ u.loose = d.loose /\ u.returned = d.returned /\ u.unsaved = d.unsaved
  BY <1>1, <1>2 DEF Base, TabType
<1> HIDE DEF u
<1>4. Fenced(u, g)
  BY <1>1, <1>3 DEF Base, Fenced, Draft, Writing, Copied
<1>5. Shape(u)
  BY <1>1, <1>2, <1>3 DEF Base, Shape
<1>6. Marked(u) /\ "settled" \notin u.lost /\ KeptByHyd(u)
  BY <1>1, <1>3 DEF Base, Marked, Edited, KeptByHyd
<1>7. Effect(u) /\ Chained(u)
  BY <1>1, <1>2, <1>3 DEF Effect, Watched, KeptByAuto, Edited, Chained
<1> QED BY <1>3, <1>4, <1>5, <1>6, <1>7 DEF WindowOK, Base, u, d

-----------------------------------------------------------------------------
(* Every step leads a window from a good state to a good state, for the     *)
(* generations before the step.                                             *)

(* Edits that have become ordinary ones are as well kept as before. *)
LEMMA Calming ==
    ASSUME NEW g, NEW t, WindowOK(t, g)
    PROVE  WindowOK(Calmed(t), g)
<1> DEFINE u == [t EXCEPT !.unsaved = TRUE, !.loose = FALSE]
<1>1. CASE t.loose /\ Settled(t) /\ Homed(t)
  <2>0. t \in TabType
    BY DEF WindowOK, Base
  <2>1. /\ u \in TabType /\ u.unsaved = TRUE
        /\ \A f \in {"cur", "gen", "of", "dirty", "orphan", "due", "auto", "hyd", "main",
                     "lost", "returned"} : u[f] = t[f]
    BY <2>0 DEF TabType
  <2>2. /\ t.main = Idle /\ t.main.at = "idle" /\ t.hyd.at \in {"idle", "net"}
        /\ t.cur # NoId \/ t.orphan
    BY <1>1, IdleAt DEF Settled, Homed
  <2>3. Calmed(t) = u
    BY <1>1 DEF Calmed
  <2> HIDE DEF u
  <2>4. Fenced(u, g) /\ Shape(u)
    BY <2>1 DEF WindowOK, Base, Fenced, Draft, Writing, Copied, Shape
  <2>5. Marked(u) /\ "settled" \notin u.lost /\ KeptByHyd(u)
    BY <1>1, <2>1, <2>2 DEF WindowOK, Base, Marked, Edited, KeptByHyd
  <2>6. Effect(u) /\ Chained(u)
    BY <1>1, <2>1, <2>2 DEF WindowOK, Effect, Watched, KeptByAuto, Edited, Chained
  <2> QED BY <2>1, <2>3, <2>4, <2>5, <2>6 DEF WindowOK, Base
<1>2. CASE ~(t.loose /\ Settled(t) /\ Homed(t))
  BY <1>2 DEF Calmed
<1> QED BY <1>1, <1>2

(* The window w goes on in a good state. *)
Becomes(w) ==
    \E u \in TabType : tab' = [tab EXCEPT ![w] = u] /\ WindowOK(u, generation)

LEMMA Became ==
    ASSUME NEW w, NEW u, Become(w, u), WindowOK(u, generation)
    PROVE  Becomes(w)
  BY Calming DEF Become, Becomes, WindowOK, Base

LEMMA EditStep ==
    ASSUME IInv, NEW w \in Windows, Edit(w)
    PROVE  Becomes(w)
<1> DEFINE t == tab[w]
           a == IF t.auto.at = "write" THEN [t.auto EXCEPT !.covers = FALSE] ELSE t.auto
           h == IF t.hyd.at = "net" THEN [t.hyd EXCEPT !.edited = TRUE] ELSE t.hyd
           u == [t EXCEPT !.dirty = TRUE, !.loose = TRUE, !.lost = {}, !.auto = a,
                          !.hyd = h]
<1>0. /\ t \in TabType /\ WindowOK(t, generation)
      /\ t.auto \in AutoType /\ t.hyd \in HydType
  BY DEF IInv, TabType
<1>1. a \in AutoType /\ a.at = t.auto.at /\ (a.at = "write" => a.id = t.auto.id)
  <2>1. CASE t.auto.at = "write"
    <3>1. /\ t.auto.id \in Ids /\ t.auto.dirty \in BOOLEAN /\ t.auto.live \in BOOLEAN
          /\ a = [at |-> "write", id |-> t.auto.id, dirty |-> t.auto.dirty,
                  live |-> t.auto.live, covers |-> FALSE]
      BY <1>0, <2>1, AutoIs
    <3> HIDE DEF a
    <3> QED BY <2>1, <3>1 DEF AutoType
  <2>2. CASE t.auto.at # "write"
    BY <1>0, <2>2
  <2> QED BY <2>1, <2>2
<1>2. /\ h \in HydType /\ h.at = t.hyd.at
      /\ h.at = "net" => h.id = t.hyd.id /\ h.edited = TRUE
      /\ h.at # "net" => h = t.hyd
  <2>1. CASE t.hyd.at = "net"
    <3>1. /\ t.hyd.id \in Ids /\ t.hyd.dirty \in BOOLEAN
          /\ h = [at |-> "net", id |-> t.hyd.id, dirty |-> t.hyd.dirty, edited |-> TRUE]
      BY <1>0, <2>1, HydIs
    <3> HIDE DEF h
    <3> QED BY <2>1, <3>1 DEF HydType
  <2>2. CASE t.hyd.at # "net"
    BY <1>0, <2>2
  <2> QED BY <2>1, <2>2
<1>3. EditedDraft(t) = Touched(u)
  BY DEF EditedDraft
<1> HIDE DEF a, h
<1>4. /\ u \in TabType /\ u.dirty = TRUE /\ u.lost = {} /\ u.auto = a /\ u.hyd = h
      /\ u.cur = t.cur /\ u.gen = t.gen /\ u.of = t.of /\ u.unsaved = t.unsaved
      /\ u.orphan = t.orphan /\ u.returned = t.returned /\ u.main = t.main
  BY <1>0, <1>1, <1>2 DEF TabType
<1> HIDE DEF u
<1>5. Fenced(u, generation)
  BY <1>0, <1>1, <1>2, <1>4 DEF WindowOK, Base, Fenced, Draft, Writing, Copied
<1>6. Shape(u)
  BY <1>0, <1>2, <1>4 DEF WindowOK, Base, Shape
<1>7. Marked(u) /\ "settled" \notin u.lost /\ KeptByHyd(u)
  BY <1>0, <1>2, <1>4 DEF WindowOK, Base, Marked, Edited, KeptByHyd
<1>8. Base(u, generation) /\ Chained(u)
  BY <1>0, <1>4, <1>5, <1>6, <1>7 DEF WindowOK, Base, Chained
<1>9. WindowOK(Touched(u), generation)
  BY <1>8, Touching
<1> QED BY <1>3, <1>9, Became DEF Edit

LEMMA PersistSessionStep ==
    ASSUME IInv, NEW w \in Windows, PersistSession(w)
    PROVE  Becomes(w)
<1> DEFINE t == tab[w]
           u == [t EXCEPT !.dirty = FALSE, !.unsaved = FALSE, !.loose = FALSE]
<1>0. t \in TabType /\ WindowOK(t, generation)
  BY DEF IInv
<1>1. /\ u \in TabType /\ u.dirty = FALSE /\ u.unsaved = FALSE /\ u.loose = FALSE
      /\ u.cur = t.cur /\ u.gen = t.gen /\ u.of = t.of /\ u.auto = t.auto
      /\ u.hyd = t.hyd /\ u.orphan = t.orphan /\ u.main = t.main /\ u.lost = t.lost
      /\ u.returned = t.returned
  BY <1>0 DEF TabType
<1>2. Become(w, Touched(u))
  BY DEF PersistSession
<1> HIDE DEF u
<1>3. Fenced(u, generation)
  BY <1>0, <1>1 DEF WindowOK, Base, Fenced, Draft, Writing, Copied
<1>4. Shape(u) /\ Marked(u) /\ "settled" \notin u.lost /\ KeptByHyd(u)
  BY <1>0, <1>1 DEF WindowOK, Base, Shape, Marked, Edited, KeptByHyd
<1>5. Base(u, generation) /\ Chained(u)
  BY <1>1, <1>3, <1>4 DEF Base, Chained
<1> QED BY <1>2, <1>5, Touching, Became

LEMMA AutoReadStep ==
    ASSUME IInv, NEW w \in Windows, AutoRead(w)
    PROVE  Becomes(w)
<1> DEFINE o == tab[w]
           t == [o EXCEPT !.due = FALSE]
           a == [at |-> "write", id |-> t.cur, dirty |-> t.dirty, live |-> TRUE,
                 covers |-> TRUE]
           u == [t EXCEPT !.auto = a]
<1>0. o \in TabType /\ WindowOK(o, generation) /\ StoreOK
  BY DEF IInv
<1>1. /\ t \in TabType /\ t.due = FALSE
      /\ \A f \in {"cur", "gen", "of", "dirty", "unsaved", "orphan", "hyd", "auto", "main",
                   "loose", "lost", "returned"} : t[f] = o[f]
  BY <1>0 DEF TabType
<1>2. /\ o.due /\ t.auto.at # "write" /\ t.hyd.at # "save"
      /\ Become(w, IF MovedOn(t, t.cur) THEN GivenUp(t, t.cur, t.dirty) ELSE u)
  BY DEF AutoRead, Quiet
<1> HIDE DEF t
<1>3. Base(t, generation) /\ Chained(t)
  BY <1>0, <1>1, <1>2, Unaffected DEF WindowOK
<1>4. t.cur \in Ids /\ t.cur # NoId /\ t.dirty \in BOOLEAN
  BY <1>0, <1>1, <1>2 DEF WindowOK, Effect, Watched, TabType
<1>5. Edited(t) => t.dirty
  BY <1>3 DEF Base, Marked
<1>6. WindowOK(GivenUp(t, t.cur, t.dirty), generation)
  BY <1>0, <1>2, <1>3, <1>4, <1>5, GivingUp DEF Edited
<1>7. WindowOK(u, generation)
  <2>1. /\ a \in AutoType /\ a.at = "write" /\ a.id = t.cur /\ a.dirty = t.dirty
        /\ a.live = TRUE /\ a.covers = TRUE
    BY <1>4 DEF AutoType
  <2> HIDE DEF a
  <2>2. /\ u \in TabType /\ u.auto = a /\ u.due = FALSE
        /\ \A f \in {"cur", "gen", "of", "dirty", "unsaved", "orphan", "hyd", "main",
                     "loose", "lost", "returned"} : u[f] = t[f]
    BY <1>1, <2>1 DEF TabType
  <2> HIDE DEF u
  <2>3. t.gen <= generation[t.cur]
    BY <1>3, <1>4 DEF Base, Fenced, Draft
  <2>4. Base(u, generation) /\ Chained(u)
    BY <1>3, <2>1, <2>2, <2>3, Unaffected
  <2>5. u.unsaved = t.unsaved /\ u.loose = t.loose /\ u.cur = t.cur
    BY <2>2
  <2>6. Effect(u)
    BY <1>4, <1>5, <2>1, <2>2, <2>5 DEF Effect, Watched, KeptByAuto, Edited
  <2> QED BY <2>4, <2>6 DEF WindowOK
<1> QED BY <1>2, <1>6, <1>7, Became

LEMMA AutoWriteStep ==
    ASSUME IInv, NEW w \in Windows, AutoWrite(w)
    PROVE  Becomes(w)
<1> DEFINE t == tab[w]
           a == t.auto
           b == IF a.live THEN [at |-> "recheck", dirty |-> a.dirty] ELSE Idle
           s == t.unsaved /\ ~a.covers
           l == t.loose /\ ~a.covers
           u == [t EXCEPT !.auto = Idle, !.unsaved = s, !.loose = l]
           v == [t EXCEPT !.auto = b]
<1>0. /\ t \in TabType /\ WindowOK(t, generation) /\ StoreOK /\ a.at = "write"
      /\ a \in AutoType
  BY DEF IInv, AutoWrite, TabType
<1>1. a.id \in Ids /\ a.dirty \in BOOLEAN /\ a.live \in BOOLEAN /\ a.covers \in BOOLEAN
  BY <1>0, AutoIs
<1>2. Become(w, u) \/ Become(w, v)
  BY DEF AutoWrite
<1>3. WindowOK(u, generation)
  <2>1. /\ s \in BOOLEAN /\ (s => t.unsaved /\ ~a.covers)
        /\ l \in BOOLEAN /\ (l => t.loose /\ ~a.covers)
    OBVIOUS
  <2> HIDE DEF s, l
  <2>2. /\ u \in TabType /\ u.auto = Idle /\ u.unsaved = s /\ u.loose = l
        /\ u.cur = t.cur /\ u.gen = t.gen /\ u.of = t.of /\ u.dirty = t.dirty
        /\ u.hyd = t.hyd /\ u.orphan = t.orphan /\ u.main = t.main /\ u.lost = t.lost
        /\ u.due = t.due /\ u.returned = t.returned
    BY <1>0, <2>1, IdleAt DEF TabType
  <2> HIDE DEF u
  <2>3. Fenced(u, generation)
    BY <1>0, <2>2, IdleAt DEF WindowOK, Base, Fenced, Draft, Writing, Copied
  <2>4. Shape(u) /\ Marked(u) /\ "settled" \notin u.lost /\ KeptByHyd(u)
    BY <1>0, <2>1, <2>2 DEF WindowOK, Base, Shape, Marked, Edited, KeptByHyd
  <2>5. Effect(u)
    BY <1>0, <2>1, <2>2, IdleAt DEF WindowOK, Effect, Watched, KeptByAuto, Edited
  <2>6. Chained(u)
    BY <1>0, <2>1, <2>2 DEF WindowOK, Chained
  <2> QED BY <2>2, <2>3, <2>4, <2>5, <2>6 DEF WindowOK, Base
<1>4. ~a.live => t.cur = NoId \/ t.due \/ ~Edited(t)
  BY <1>0 DEF WindowOK, Effect, KeptByAuto, Edited
<1>5. WindowOK(v, generation)
  <2>0. t.cur # NoId \/ ~a.live
    BY <1>0 DEF WindowOK, Effect, Watched
  <2>1. /\ b \in AutoType /\ b.at # "write"
        /\ b.at = "recheck" => a.live /\ b.dirty = a.dirty
        /\ a.live => b.at = "recheck"
    <3>1. CASE a.live
      BY <1>1, <3>1 DEF AutoType
    <3>2. CASE ~a.live
      BY <3>2, IdleAt
    <3> QED BY <3>1, <3>2
  <2> HIDE DEF b
  <2>2. /\ v \in TabType /\ v.auto = b
        /\ \A f \in {"cur", "gen", "of", "dirty", "unsaved", "orphan", "hyd", "main",
                     "loose", "lost", "due", "returned"} : v[f] = t[f]
    BY <1>0, <2>1 DEF TabType
  <2> HIDE DEF v
  <2>3. Base(v, generation) /\ Chained(v)
    BY <1>0, <2>1, <2>2, Unaffected DEF WindowOK
  <2>4. v.cur = t.cur /\ v.unsaved = t.unsaved /\ v.loose = t.loose /\ v.due = t.due
    BY <2>2
  <2>5. Effect(v)
    BY <1>0, <1>4, <2>0, <2>1, <2>2, <2>4 DEF WindowOK, Effect, Watched, KeptByAuto, Edited
  <2> QED BY <2>3, <2>5 DEF WindowOK
<1> QED BY <1>2, <1>3, <1>5, Became

LEMMA AutoRecheckStep ==
    ASSUME IInv, NEW w \in Windows, AutoRecheck(w)
    PROVE  Becomes(w)
<1> DEFINE t == tab[w]
           u == [t EXCEPT !.dirty = TRUE]
<1>0. /\ t \in TabType /\ WindowOK(t, generation) /\ StoreOK /\ t.auto \in AutoType
      /\ t.auto.at = "recheck" /\ t.hyd.at # "save"
      /\ Become(w, IF MovedOn(t, t.cur) THEN GivenUp(t, t.cur, t.auto.dirty) ELSE Touched(u))
  BY DEF IInv, AutoRecheck, Quiet, TabType
<1>1. t.cur \in Ids /\ t.auto.dirty \in BOOLEAN /\ (Edited(t) => t.auto.dirty)
  BY <1>0, AutoIs DEF WindowOK, Effect, Watched, KeptByAuto, Edited, TabType
<1>2. WindowOK(GivenUp(t, t.cur, t.auto.dirty), generation)
  BY <1>0, <1>1, GivingUp DEF WindowOK, Edited
<1>3. /\ u \in TabType /\ u.dirty = TRUE
      /\ u.cur = t.cur /\ u.gen = t.gen /\ u.of = t.of /\ u.auto = t.auto
      /\ u.hyd = t.hyd /\ u.orphan = t.orphan /\ u.main = t.main
      /\ u.lost = t.lost /\ u.loose = t.loose
      /\ u.unsaved = t.unsaved /\ u.returned = t.returned
  BY <1>0 DEF TabType
<1> HIDE DEF u
<1>4. Base(u, generation) /\ Chained(u)
  <2>1. Fenced(u, generation)
    BY <1>0, <1>3 DEF WindowOK, Base, Fenced, Draft, Writing, Copied
  <2>2. Shape(u) /\ Marked(u) /\ "settled" \notin u.lost /\ KeptByHyd(u)
    BY <1>0, <1>3 DEF WindowOK, Base, Shape, Marked, Edited, KeptByHyd
  <2> QED BY <1>0, <1>3, <2>1, <2>2 DEF WindowOK, Base, Chained
<1>5. WindowOK(Touched(u), generation)
  BY <1>4, Touching
<1> QED BY <1>0, <1>2, <1>5, Became

LEMMA HydReadStep ==
    ASSUME IInv, NEW w \in Windows, HydRead(w)
    PROVE  Becomes(w)
<1> DEFINE t == tab[w]
           pin == t.hyd.pin
           h == [at |-> "create"]
           u == [t EXCEPT !.hyd = h]
<1>0. /\ t \in TabType /\ WindowOK(t, generation) /\ StoreOK /\ t.hyd \in HydType
      /\ t.hyd.at = "read" /\ t.auto.at # "write" /\ t.hyd.at # "save"
  BY DEF IInv, HydRead, Quiet, TabType
<1>1. pin \in Ids \cup {NoId}
  BY <1>0, HydIs
<1>2. Base(t, generation) /\ Effect(t) /\ Chained(t) /\ t.main.at # "keep"
  BY <1>0 DEF WindowOK, Base, Shape
<1>3. CASE pin # NoId /\ ~Visible(pin)
  <2>1. WindowOK(Orphaned(t), generation)
    BY <1>0, <1>2, Orphaning
  <2>2. WindowOK([Orphaned(t) EXCEPT !.hyd = Idle], generation)
    BY <2>1, Stopping
  <2>3. Become(w, [Orphaned(t) EXCEPT !.hyd = Idle])
    BY <1>3 DEF HydRead
  <2> QED BY <2>2, <2>3, Became
<1>4. CASE pin # NoId /\ Visible(pin)
  <2>1. t.main.at \in {"prev", "out"} => t.main.out = pin
    BY <1>0, <1>2 DEF Base, Shape
  <2>2. ~t.unsaved
    BY <1>0, <1>2, <1>4 DEF Base, KeptByHyd
  <2>3. WindowOK(Hydrating(t, pin), generation)
    BY <1>0, <1>1, <1>2, <1>4, <2>1, <2>2, HydratingOK
  <2>4. Become(w, Hydrating(t, pin))
    BY <1>4 DEF HydRead
  <2> QED BY <2>3, <2>4, Became
<1>5. CASE pin = NoId
  <2>1. t.cur = NoId /\ t.main = Idle /\ t.main.at = "idle"
    BY <1>0, <1>2, <1>5, IdleAt DEF Base, Shape
  <2>2. CASE t.orphan
    <3>1. WindowOK([t EXCEPT !.hyd = Idle], generation)
      BY <1>0, Stopping
    <3>2. Become(w, [t EXCEPT !.hyd = Idle])
      BY <1>5, <2>2 DEF HydRead
    <3> QED BY <3>1, <3>2, Became
  <2>3. CASE ~t.orphan /\ active # NoId /\ Visible(active)
    <3>1. ~t.unsaved
      BY <1>2, <2>1, <2>3 DEF Chained
    <3>2. active \in Ids
      BY <1>0, <2>3 DEF StoreOK
    <3>3. WindowOK(Hydrating(t, active), generation)
      BY <1>0, <1>2, <2>1, <2>3, <3>1, <3>2, HydratingOK
    <3>4. Become(w, Hydrating(t, active))
      BY <1>5, <2>3 DEF HydRead
    <3> QED BY <3>3, <3>4, Became
  <2>4. CASE ~t.orphan /\ ~(active # NoId /\ Visible(active))
    <3>1. h \in HydType /\ h.at = "create"
      BY DEF HydType
    <3>2. Become(w, u)
      BY <1>5, <2>4 DEF HydRead
    <3> HIDE DEF h
    <3>3. /\ u \in TabType /\ u.hyd = h
          /\ u.cur = t.cur /\ u.gen = t.gen /\ u.of = t.of /\ u.auto = t.auto
          /\ u.dirty = t.dirty /\ u.due = t.due
          /\ u.orphan = t.orphan /\ u.main = t.main /\ u.lost = t.lost /\ u.loose = t.loose
          /\ u.unsaved = t.unsaved /\ u.returned = t.returned
      BY <1>0, <3>1 DEF TabType
    <3> HIDE DEF u
    <3>4. Fenced(u, generation)
      BY <1>2, <3>1, <3>3 DEF Base, Fenced, Draft, Writing, Copied
    <3>5. Shape(u)
      BY <1>2, <2>1, <2>4, <3>1, <3>3 DEF Base, Shape
    <3>6. Marked(u) /\ "settled" \notin u.lost /\ KeptByHyd(u)
      BY <1>2, <3>1, <3>3 DEF Base, Marked, Edited, KeptByHyd
    <3>7. Effect(u) /\ Chained(u)
      BY <1>2, <3>3 DEF Effect, Watched, KeptByAuto, Edited, Chained
    <3>8. WindowOK(u, generation)
      BY <3>3, <3>4, <3>5, <3>6, <3>7 DEF WindowOK, Base
    <3> QED BY <3>2, <3>8, Became
  <2> QED BY <2>2, <2>3, <2>4
<1> QED BY <1>3, <1>4, <1>5

LEMMA HydCreateStep ==
    ASSUME IInv, NEW w \in Windows, HydCreate(w)
    PROVE  Becomes(w)
<1> DEFINE t == tab[w]
<1>0. /\ t \in TabType /\ WindowOK(t, generation) /\ StoreOK /\ t.hyd.at = "create"
      /\ Base(t, generation)
  BY DEF IInv, HydCreate, WindowOK
<1>1. PICK id \in Ids : \E P \in SUBSET Ids :
          Become(w, Replaced([t EXCEPT !.cur = id, !.gen = 0, !.of = 0, !.dirty = TRUE,
              !.hyd = [at |-> "net", id |-> id, dirty |-> TRUE, edited |-> FALSE]]))
  BY DEF HydCreate
<1> DEFINE h == [at |-> "net", id |-> id, dirty |-> TRUE, edited |-> FALSE]
           u == [t EXCEPT !.cur = id, !.gen = 0, !.of = 0, !.dirty = TRUE, !.hyd = h]
<1>2. h \in HydType /\ h.at = "net"
  BY DEF HydType
<1>3. Become(w, Replaced(u))
  BY <1>1
<1> HIDE DEF h
<1>4. /\ u \in TabType /\ u.hyd = h /\ u.cur = id /\ u.gen = 0 /\ u.of = 0
      /\ u.auto = t.auto /\ u.orphan = t.orphan /\ u.main = t.main
      /\ u.lost = t.lost /\ u.loose = t.loose
      /\ u.unsaved = t.unsaved
  <2>1. 0 \in 0..MaxGeneration
    BY TabsAssumption
  <2> QED BY <1>0, <1>2, <2>1 DEF TabType
<1> HIDE DEF u
<1>5. /\ t.main = Idle /\ t.main.at = "idle" /\ t.cur = NoId /\ ~t.orphan
  BY <1>0, IdleAt DEF Base, Shape
<1>6. t.auto.at = "write" => t.auto.id \in Ids
  BY <1>0, AutoIs DEF TabType
<1>7. \A i \in Ids : generation[i] \in Nat
  BY <1>0, TabsAssumption DEF StoreOK
<1>8. Fenced(u, generation)
  BY <1>2, <1>4, <1>5, <1>6, <1>7 DEF Fenced, Draft, Writing, Copied
<1>9. Shape(u)
  BY <1>2, <1>4, <1>5 DEF Shape
<1>10. "settled" \notin u.lost /\ ~u.unsaved /\ KeptByHyd(u)
  BY <1>0, <1>2, <1>4, <1>5 DEF WindowOK, Base, Chained, KeptByHyd
<1>11. WindowOK(Replaced(u), generation)
  <2>1. PICK r \in BOOLEAN : r = FALSE
    OBVIOUS
  <2>2. u.cur # NoId => r \/ u.of = u.gen \/ u.gen < generation[u.cur]
    BY <1>4
  <2> QED BY <1>4, <1>8, <1>9, <1>10, <2>1, <2>2, Replacing
<1> QED BY <1>3, <1>11, Became

LEMMA HydNetStep ==
    ASSUME IInv, NEW w \in Windows, HydNet(w)
    PROVE  Becomes(w)
<1> DEFINE t == tab[w]
           h == t.hyd
<1>0. /\ t \in TabType /\ WindowOK(t, generation) /\ Base(t, generation) /\ StoreOK
      /\ Effect(t) /\ Chained(t) /\ h.at = "net" /\ h \in HydType /\ t.auto.at # "write"
  BY DEF IInv, HydNet, Quiet, WindowOK, TabType
<1>1. h.id \in Ids /\ h.dirty \in BOOLEAN /\ h.edited \in BOOLEAN
  BY <1>0, HydIs
<1>2. CASE t.cur # h.id /\ Become(w, Offline(t))
  BY <1>0, <1>2, Unhydrating, Became DEF WindowOK
<1>3. ASSUME t.cur = h.id, NEW dirty \in {FALSE, h.dirty}
      PROVE  LET u == [t EXCEPT !.dirty = StillDirty(h, dirty)] IN
             /\ u \in TabType /\ u.hyd = t.hyd
             /\ Base(u, generation) /\ Chained(u)
             /\ u.dirty = StillDirty(h, dirty) /\ (Edited(u) => h.edited)
             /\ u.unsaved = t.unsaved /\ u.cur = t.cur /\ u.main = t.main
             /\ u.orphan = t.orphan /\ u.gen = t.gen /\ u.of = t.of /\ u.auto = t.auto
             /\ u.lost = t.lost /\ u.loose = t.loose /\ u.returned = t.returned
  <2> DEFINE s == StillDirty(h, dirty)
             u == [t EXCEPT !.dirty = s]
  <2>1. s \in BOOLEAN /\ (h.edited => s)
    BY <1>1 DEF StillDirty
  <2> HIDE DEF s
  <2>2. /\ u \in TabType /\ u.dirty = s
        /\ u.cur = t.cur /\ u.gen = t.gen /\ u.of = t.of /\ u.auto = t.auto
        /\ u.hyd = t.hyd /\ u.orphan = t.orphan /\ u.main = t.main
        /\ u.lost = t.lost /\ u.loose = t.loose
        /\ u.unsaved = t.unsaved /\ u.returned = t.returned
    BY <1>0, <2>1 DEF TabType
  <2> HIDE DEF u
  <2>3. Edited(u) => h.edited
    BY <1>0, <1>3, <2>2 DEF Base, Marked, Edited
  <2>4. Fenced(u, generation)
    BY <1>0, <2>2 DEF Base, Fenced, Draft, Writing, Copied
  <2>5. Shape(u) /\ Marked(u) /\ "settled" \notin u.lost /\ KeptByHyd(u)
    BY <1>0, <2>1, <2>2, <2>3 DEF Base, Shape, Marked, Edited, KeptByHyd
  <2>6. Base(u, generation) /\ Chained(u)
    BY <1>0, <2>2, <2>4, <2>5 DEF Base, Chained
  <2> QED BY <2>2, <2>3, <2>6 DEF u, s
<1>4. CASE t.cur = h.id
           /\ Become(w, Touched(Offline([t EXCEPT !.dirty = StillDirty(h, h.dirty)])))
  <2> DEFINE u == [t EXCEPT !.dirty = StillDirty(h, h.dirty)]
  <2>1. Base(u, generation) /\ Chained(u)
    BY <1>3, <1>4
  <2> HIDE DEF u
  <2>2. Base(Offline(u), generation) /\ Chained(Offline(u))
    BY <2>1, Unhydrating
  <2>3. WindowOK(Touched(Offline(u)), generation)
    BY <2>2, Touching
  <2> QED BY <1>4, <2>3, Became DEF u
<1>5. ASSUME t.cur = h.id, NEW dirty \in {FALSE, h.dirty},
             Become(w, Touched([t EXCEPT !.dirty = StillDirty(h, dirty),
                 !.hyd = [at |-> "save", id |-> h.id, dirty |-> StillDirty(h, dirty),
                          kept |-> h.edited]]))
      PROVE  Becomes(w)
  <2> DEFINE s == StillDirty(h, dirty)
             k == [at |-> "save", id |-> h.id, dirty |-> s, kept |-> h.edited]
             u == [t EXCEPT !.dirty = s]
             v == [u EXCEPT !.hyd = k]
             x == [t EXCEPT !.dirty = s, !.hyd = k]
  <2>1. /\ u \in TabType /\ u.hyd = t.hyd
        /\ Base(u, generation) /\ Chained(u) /\ (Edited(u) => h.edited)
        /\ u.cur = t.cur
    BY <1>3, <1>5
  <2>2. /\ k \in HydType /\ k.at = "save" /\ k.id = h.id /\ k.kept = h.edited
    <3>1. s \in BOOLEAN
      BY <1>1 DEF StillDirty
    <3> HIDE DEF s
    <3> QED BY <1>1, <3>1 DEF HydType
  <2>3. x = v
    OBVIOUS
  <2> HIDE DEF k, u
  <2>4. /\ v \in TabType /\ v.hyd = k
        /\ v.cur = u.cur /\ v.gen = u.gen /\ v.of = u.of /\ v.auto = u.auto
        /\ v.dirty = u.dirty /\ v.orphan = u.orphan /\ v.main = u.main
        /\ v.lost = u.lost /\ v.loose = u.loose /\ v.unsaved = u.unsaved /\ v.returned = u.returned
    BY <2>1, <2>2 DEF TabType
  <2> HIDE DEF v
  <2>5. v.gen <= generation[k.id]
    BY <1>1, <1>5, <2>1, <2>2, <2>4, TabsAssumption DEF Base, Fenced, Draft
  <2>6. Fenced(v, generation)
    BY <2>1, <2>2, <2>4, <2>5 DEF Base, Fenced, Draft, Writing, Copied
  <2>7. Shape(v)
    BY <1>0, <2>1, <2>2, <2>4 DEF Base, Shape
  <2>8. Marked(v)
    BY <2>1, <2>2, <2>4 DEF Base, Marked, Edited
  <2>9. "settled" \notin v.lost /\ KeptByHyd(v)
    BY <2>1, <2>2, <2>4 DEF Base, KeptByHyd, Edited
  <2>10. Base(v, generation) /\ Chained(v)
    BY <2>1, <2>4, <2>6, <2>7, <2>8, <2>9 DEF Base, Chained
  <2>11. WindowOK(Touched(v), generation)
    BY <2>10, Touching
  <2>12. Become(w, Touched(x))
    BY <1>5 DEF k
  <2> HIDE DEF x
  <2> QED BY <2>3, <2>11, <2>12, Became
<1> QED BY <1>2, <1>4, <1>5 DEF HydNet

LEMMA HydSaveStep ==
    ASSUME IInv, NEW w \in Windows, HydSave(w)
    PROVE  Becomes(w)
<1> DEFINE t == tab[w]
           h == t.hyd
           u == [t EXCEPT !.unsaved = FALSE]
           k == [h EXCEPT !.at = "recheck"]
           v == [t EXCEPT !.hyd = k]
<1>0. /\ t \in TabType /\ WindowOK(t, generation) /\ h.at = "save" /\ h \in HydType
  BY DEF IInv, HydSave, TabType
<1>1. h.id \in Ids /\ h.dirty \in BOOLEAN /\ h.kept \in BOOLEAN
  BY <1>0, HydIs
<1>2. Become(w, Offline(u)) \/ Become(w, v)
  BY DEF HydSave
<1>3. WindowOK(Offline(u), generation)
  <2>1. /\ u \in TabType /\ u.unsaved = FALSE /\ u.auto = t.auto
        /\ u.cur = t.cur /\ u.gen = t.gen /\ u.of = t.of /\ u.dirty = t.dirty
        /\ u.hyd = t.hyd /\ u.orphan = t.orphan /\ u.main = t.main
        /\ u.lost = t.lost /\ u.loose = t.loose
        /\ u.due = t.due /\ u.returned = t.returned
    BY <1>0 DEF TabType
  <2> HIDE DEF u
  <2>2. Fenced(u, generation)
    BY <1>0, <2>1 DEF WindowOK, Base, Fenced, Draft, Writing, Copied
  <2>3. Shape(u) /\ Marked(u) /\ "settled" \notin u.lost /\ KeptByHyd(u)
    BY <1>0, <2>1 DEF WindowOK, Base, Shape, Marked, Edited, KeptByHyd
  <2>4. Effect(u) /\ Chained(u)
    BY <1>0, <2>1 DEF WindowOK, Effect, Watched, KeptByAuto, Edited, Chained
  <2>5. Base(u, generation)
    BY <2>1, <2>2, <2>3 DEF Base
  <2> QED BY <2>4, <2>5, Unhydrating DEF WindowOK
<1>4. WindowOK(v, generation)
  <2>1. /\ k \in HydType /\ k.at = "recheck" /\ k.id = h.id /\ k.kept = h.kept
    <3>1. k = [at |-> "recheck", id |-> h.id, dirty |-> h.dirty, kept |-> h.kept]
      BY <1>0, HydIs
    <3> HIDE DEF k
    <3> QED BY <1>1, <3>1 DEF HydType
  <2> HIDE DEF k
  <2>2. /\ v \in TabType /\ v.hyd = k
        /\ v.cur = t.cur /\ v.gen = t.gen /\ v.of = t.of /\ v.auto = t.auto
        /\ v.dirty = t.dirty /\ v.orphan = t.orphan /\ v.main = t.main /\ v.due = t.due
        /\ v.lost = t.lost /\ v.loose = t.loose /\ v.unsaved = t.unsaved /\ v.returned = t.returned
    BY <1>0, <2>1 DEF TabType
  <2> HIDE DEF v
  <2>3. Fenced(v, generation)
    BY <1>0, <2>1, <2>2 DEF WindowOK, Base, Fenced, Draft, Writing, Copied
  <2>4. Shape(v)
    BY <1>0, <2>1, <2>2 DEF WindowOK, Base, Shape
  <2>5. Marked(v) /\ "settled" \notin v.lost /\ KeptByHyd(v)
    BY <1>0, <2>1, <2>2 DEF WindowOK, Base, Marked, Edited, KeptByHyd
  <2>6. Effect(v) /\ Chained(v)
    BY <1>0, <2>2 DEF WindowOK, Effect, Watched, KeptByAuto, Edited, Chained
  <2> QED BY <2>2, <2>3, <2>4, <2>5, <2>6 DEF WindowOK, Base
<1> QED BY <1>2, <1>3, <1>4, Became

(* The draft is dirty, and may be an orphan. *)
Dirtied(t, orphan) == [t EXCEPT !.orphan = orphan, !.dirty = TRUE]

LEMMA Dirtying ==
    ASSUME NEW g, NEW t, Base(t, g), NEW orphan \in BOOLEAN, t.orphan => orphan,
           orphan => t.hyd.at # "create"
    PROVE  /\ Base(Dirtied(t, orphan), g)
           /\ Dirtied(t, orphan).unsaved = t.unsaved /\ Dirtied(t, orphan).main = t.main
           /\ Effect(t) => Effect(Dirtied(t, orphan))
           /\ Chained(t) => Chained(Dirtied(t, orphan))
<1> DEFINE u == Dirtied(t, orphan)
<1>1. /\ u \in TabType /\ u.dirty = TRUE /\ u.orphan = orphan
      /\ u.cur = t.cur /\ u.gen = t.gen /\ u.of = t.of /\ u.auto = t.auto
      /\ u.hyd = t.hyd /\ u.main = t.main /\ u.lost = t.lost /\ u.loose = t.loose /\ u.due = t.due
      /\ u.unsaved = t.unsaved /\ u.returned = t.returned
  BY DEF Base, TabType, Dirtied
<1> HIDE DEF u
<1>2. Fenced(u, g)
  BY <1>1 DEF Base, Fenced, Draft, Writing, Copied
<1>3. t.hyd.at = "create" => ~orphan
  OBVIOUS
<1>4. Shape(u) /\ Marked(u) /\ "settled" \notin u.lost /\ KeptByHyd(u)
  BY <1>1, <1>3 DEF Base, Shape, Marked, Edited, KeptByHyd
<1>5. Effect(t) => Effect(u)
  BY <1>1 DEF Effect, Watched, KeptByAuto, Edited
<1>6. Chained(t) => Chained(u)
  BY <1>1 DEF Chained
<1> QED BY <1>1, <1>2, <1>4, <1>5, <1>6 DEF Base, u

LEMMA HydRecheckStep ==
    ASSUME IInv, NEW w \in Windows, HydRecheck(w)
    PROVE  Becomes(w)
<1> DEFINE t == tab[w]
           h == t.hyd
           o == Offline(t)
<1>0. /\ t \in TabType /\ WindowOK(t, generation) /\ Base(t, generation) /\ StoreOK
      /\ Effect(t) /\ Chained(t) /\ h.at = "recheck" /\ h \in HydType
      /\ t.auto.at # "write"
  BY DEF IInv, HydRecheck, Quiet, WindowOK, TabType
<1>1. h.id \in Ids /\ h.kept \in BOOLEAN
  BY <1>0, HydIs
<1>2. /\ Base(o, generation) /\ Effect(o) /\ Chained(o) /\ o.hyd = Idle
      /\ o.cur = t.cur /\ o.unsaved = t.unsaved /\ o.auto = t.auto
  BY <1>0, Unhydrating
<1>3. CASE t.cur # h.id
  <2>1. Become(w, o)
    BY <1>3 DEF HydRecheck
  <2> QED BY <1>2, <2>1, Became DEF WindowOK
<1>4. CASE t.cur = h.id /\ MovedOn(t, h.id)
  <2> DEFINE v == GivenUp(o, h.id, h.kept)
             u == [v EXCEPT !.hydrated = TRUE]
  <2>1. (o.unsaved => h.kept)
    BY <1>0, <1>2, <1>4 DEF Base, KeptByHyd
  <2>2. WindowOK(v, generation)
    BY <1>0, <1>1, <1>2, <1>4, <2>1, IdleAt, GivingUp
  <2>3. Become(w, u)
    BY <1>4 DEF HydRecheck
  <2> HIDE DEF v
  <2>4. /\ u \in TabType
        /\ \A f \in {"cur", "gen", "of", "dirty", "unsaved", "orphan", "hyd", "main",
                     "loose", "lost", "returned", "due", "auto"} : u[f] = v[f]
    BY <2>2 DEF WindowOK, Base, TabType
  <2> HIDE DEF u
  <2>5. v.auto.at = "write" => v.gen <= generation[v.auto.id]
    BY <2>2 DEF WindowOK, Base, Fenced, Writing
  <2>6. Base(u, generation) /\ Chained(u)
    BY <2>2, <2>4, <2>5, Unaffected DEF WindowOK
  <2>7. /\ u.due = v.due /\ u.cur = v.cur /\ u.auto = v.auto /\ u.unsaved = v.unsaved
        /\ u.loose = v.loose
    BY <2>4
  <2>8. Effect(u)
    BY <2>2, <2>7 DEF WindowOK, Effect, Watched, KeptByAuto, Edited
  <2> QED BY <2>3, <2>6, <2>8, Became DEF WindowOK
<1>5. CASE t.cur = h.id /\ ~MovedOn(t, h.id)
  <2> DEFINE u == [t EXCEPT !.dirty = TRUE]
             v == Dirtied(t, t.orphan)
  <2>1. u = v /\ t.orphan \in BOOLEAN
    BY <1>0 DEF TabType, Dirtied
  <2>2. Base(v, generation) /\ Chained(v)
    <3>1. t.orphan => t.hyd.at # "create"
      BY <1>0
    <3> QED BY <1>0, <2>1, <3>1, Dirtying
  <2>3. Become(w, Offline(Touched(u)))
    BY <1>5 DEF HydRecheck
  <2> HIDE DEF u, v
  <2>4. WindowOK(Touched(u), generation)
    BY <2>1, <2>2, Touching
  <2>5. WindowOK(Offline(Touched(u)), generation)
    BY <2>4, Unhydrating DEF WindowOK
  <2> QED BY <2>3, <2>5, Became
<1> QED BY <1>3, <1>4, <1>5

LEMMA ReconnectStep ==
    ASSUME IInv, NEW w \in Windows, Reconnect(w)
    PROVE  Becomes(w)
<1> DEFINE t == tab[w]
           h == [at |-> "read", pin |-> t.cur]
           u == [t EXCEPT !.hyd = h]
<1>0. /\ t \in TabType /\ WindowOK(t, generation) /\ t.main = Idle
      /\ ~t.due /\ t.auto = Idle /\ Become(w, u)
  BY DEF IInv, Reconnect, Settled, Rehydrating
<1>1. h \in HydType /\ h.at = "read" /\ h.pin = t.cur
  BY <1>0 DEF HydType, TabType
<1> HIDE DEF h
<1>2. /\ u \in TabType /\ u.hyd = h
      /\ u.cur = t.cur /\ u.gen = t.gen /\ u.of = t.of /\ u.auto = t.auto
      /\ u.dirty = t.dirty /\ u.due = t.due
      /\ u.orphan = t.orphan /\ u.main = t.main /\ u.lost = t.lost /\ u.loose = t.loose
      /\ u.unsaved = t.unsaved /\ u.returned = t.returned
  BY <1>0, <1>1 DEF TabType
<1> HIDE DEF u
<1>3. Fenced(u, generation)
  BY <1>0, <1>1, <1>2 DEF WindowOK, Base, Fenced, Draft, Writing, Copied
<1>4. Shape(u) /\ Marked(u)
  BY <1>0, <1>1, <1>2, IdleAt DEF WindowOK, Base, Shape, Marked, Edited
<1>5. "settled" \notin u.lost /\ KeptByHyd(u)
  BY <1>0, <1>1, <1>2, IdleAt DEF WindowOK, Base, Effect, KeptByAuto, Edited, KeptByHyd
<1>6. Effect(u) /\ Chained(u)
  BY <1>0, <1>2 DEF WindowOK, Effect, Watched, KeptByAuto, Edited, Chained
<1> QED BY <1>0, <1>2, <1>3, <1>4, <1>5, <1>6, Became DEF WindowOK, Base

LEMMA BlankOK ==
    ASSUME NEW g
    PROVE  WindowOK(Blank, g)
<1> DEFINE h == [at |-> "read", pin |-> NoId]
<1>1. h \in HydType /\ h.at = "read" /\ h.pin = NoId
  BY DEF HydType
<1>2. 0 \in 0..MaxGeneration /\ 0 \in Nat
  BY TabsAssumption
<1> HIDE DEF h
<1>3. /\ Blank \in TabType
      /\ Blank.cur = NoId /\ Blank.auto = Idle /\ Blank.hyd = h /\ Blank.main = Idle
      /\ Blank.unsaved = FALSE /\ Blank.loose = FALSE /\ Blank.lost = {}
      /\ Blank.due = FALSE /\ Blank.orphan = FALSE
  BY <1>1, <1>2, IdleAt DEF Blank, TabType, h
<1>4. Base(Blank, g)
  BY <1>1, <1>3, IdleAt
     DEF Base, Fenced, Draft, Writing, Copied, Shape, Marked, Edited, KeptByHyd
<1>5. Effect(Blank) /\ Chained(Blank)
  BY <1>3, IdleAt DEF Effect, Watched, KeptByAuto, Edited, Chained
<1> QED BY <1>4, <1>5 DEF WindowOK

LEMMA Losing ==
    ASSUME NEW g, NEW t, WindowOK(t, g), NEW l \in SUBSET Losses, "settled" \notin l
    PROVE  WindowOK([t EXCEPT !.lost = l], g)
<1> DEFINE u == [t EXCEPT !.lost = l]
<1>1. /\ u \in TabType /\ u.lost = l
      /\ u.cur = t.cur /\ u.gen = t.gen /\ u.of = t.of /\ u.auto = t.auto
      /\ u.due = t.due /\ u.dirty = t.dirty /\ u.hyd = t.hyd /\ u.main = t.main
      /\ u.unsaved = t.unsaved /\ u.loose = t.loose /\ u.orphan = t.orphan
      /\ u.returned = t.returned
  BY DEF WindowOK, Base, TabType
<1> HIDE DEF u
<1>2. Base(u, g)
  BY <1>1 DEF WindowOK, Base, Fenced, Draft, Writing, Copied, Shape, Marked, Edited, KeptByHyd
<1>3. Effect(u) /\ Chained(u)
  BY <1>1 DEF WindowOK, Effect, Watched, KeptByAuto, Edited, Chained
<1> QED BY <1>2, <1>3 DEF WindowOK, u

LEMMA ReloadStep ==
    ASSUME IInv, NEW w \in Windows, Reload(w)
    PROVE  Becomes(w)
<1> DEFINE l == IF Unkept(tab[w]) = {} THEN {} ELSE {"closed"}
<1>1. Become(w, [Blank EXCEPT !.lost = l])
  BY DEF Reload
<1>2. l \in SUBSET Losses /\ "settled" \notin l
  BY DEF Losses
<1> HIDE DEF l
<1>3. WindowOK([Blank EXCEPT !.lost = l], generation)
  BY <1>2, BlankOK, Losing
<1> QED BY <1>1, <1>3, Became

LEMMA DeliverStep ==
    ASSUME IInv, NEW w \in Windows, NEW id \in Ids, Deliver(w, id)
    PROVE  Becomes(w)
<1> DEFINE t == tab[w]
<1>0. WindowOK(t, generation)
  BY DEF IInv
<1>1. CASE t.cur = id
  <2>1. t.hyd.at # "create"
    BY <1>0, <1>1, TabsAssumption DEF WindowOK, Base, Shape
  <2>2. WindowOK(Orphaned(t), generation)
    BY <1>0, <2>1, Orphaning DEF WindowOK
  <2>3. Become(w, Orphaned(t))
    BY <1>1 DEF Deliver
  <2> QED BY <2>2, <2>3, Became
<1>2. CASE t.cur # id
  <2>1. Become(w, t)
    BY <1>2 DEF Deliver
  <2> QED BY <1>0, <2>1, Became
<1> QED BY <1>1, <1>2

LEMMA Forgetting ==
    ASSUME NEW g, NEW t, WindowOK(t, g), NEW d \in Store!Deletions \cup {Nothing}
    PROVE  WindowOK([t EXCEPT !.undo = d], g)
<1> DEFINE u == [t EXCEPT !.undo = d]
<1>1. /\ u \in TabType
      /\ \A f \in {"cur", "gen", "of", "dirty", "unsaved", "orphan", "hyd", "main",
                   "loose", "lost", "returned", "due", "auto"} : u[f] = t[f]
  BY DEF WindowOK, Base, TabType
<1> HIDE DEF u
<1>2. t.auto.at = "write" => t.gen <= g[t.auto.id]
  BY DEF WindowOK, Base, Fenced, Writing
<1>3. Base(u, g) /\ Chained(u)
  BY <1>1, <1>2, Unaffected DEF WindowOK
<1>4. /\ u.due = t.due /\ u.cur = t.cur /\ u.auto = t.auto /\ u.unsaved = t.unsaved
      /\ u.loose = t.loose
  BY <1>1
<1>5. Effect(u)
  BY <1>4 DEF WindowOK, Effect, Watched, KeptByAuto, Edited
<1> QED BY <1>3, <1>5 DEF WindowOK, u

LEMMA UndoStep ==
    ASSUME IInv, NEW w \in Windows, Undo(w) \/ UndoGone(w)
    PROVE  Becomes(w)
<1>1. Become(w, [tab[w] EXCEPT !.undo = Nothing])
  BY DEF Undo, UndoGone
<1>2. WindowOK(tab[w], generation)
  BY DEF IInv
<1> QED BY <1>1, <1>2, Forgetting, Became

(* The procedure of the window goes on with m, which may save the draft. *)
With(t, s, m) == [t EXCEPT !.unsaved = s, !.main = m]

LEMMA Chaining ==
    ASSUME NEW g, NEW t, Base(t, g), Effect(t),
           NEW m \in ChainType, NEW s \in BOOLEAN, s => t.unsaved,
           t.hyd.at # "create", t.hyd.at = "read" => t.hyd.pin # NoId,
           m.at # "keep",
           m.at \in {"prev", "out", "outrecheck", "back"} => m.out # NoId,
           m.at \in {"prev", "out"} => /\ t.cur \in {NoId, m.out} /\ t.gen <= g[m.out]
                                       /\ t.hyd.at = "read" => t.hyd.pin = m.out,
           m.at \in {"switch", "delete", "recover"} => m.removing # NoId,
           Copied(With(t, s, m), g),
           Chained(With(t, s, m))
    PROVE  WindowOK(With(t, s, m), g)
<1> DEFINE u == With(t, s, m)
<1>1. m # Idle /\ m \in MainType
  BY IdleAt DEF MainType, ChainType, MainStages
<1>2. /\ u \in TabType /\ u.main = m /\ u.unsaved = s
      /\ u.cur = t.cur /\ u.gen = t.gen /\ u.of = t.of /\ u.auto = t.auto
      /\ u.dirty = t.dirty /\ u.due = t.due /\ u.hyd = t.hyd
      /\ u.orphan = t.orphan /\ u.lost = t.lost /\ u.loose = t.loose /\ u.returned = t.returned
  BY <1>1 DEF With, Base, TabType
<1> HIDE DEF u
<1>3. Fenced(u, g)
  <2>1. Draft(u, g) /\ Writing(u, g)
    BY <1>2 DEF Base, Fenced, Draft, Writing
  <2> QED BY <2>1 DEF Fenced, u
<1>4. Shape(u)
  BY <1>1, <1>2 DEF Base, Shape
<1>5. Marked(u) /\ "settled" \notin u.lost /\ KeptByHyd(u)
  BY <1>2 DEF Base, Marked, Edited, KeptByHyd
<1>6. Effect(u)
  BY <1>2 DEF Effect, Watched, KeptByAuto, Edited
<1>7. Chained(u)
  BY DEF Chained, u
<1> QED BY <1>2, <1>3, <1>4, <1>5, <1>6, <1>7 DEF WindowOK, Base, u

LEMMA WithIs ==
    ASSUME NEW t \in TabType, NEW s, NEW m
    PROVE  /\ With(t, s, m).main = m /\ With(t, s, m).unsaved = s
           /\ \A f \in {"cur", "gen", "of", "dirty", "orphan", "hydrated", "due", "auto",
                        "hyd", "undo", "loose", "lost", "returned"} :
                  With(t, s, m)[f] = t[f]
           /\ \A stage : Goes(With(t, s, m), stage) = With(t, s, [m EXCEPT !.at = stage])
           /\ \A stage : Goes(t, stage) = With(t, t.unsaved, [t.main EXCEPT !.at = stage])
<1>1. /\ With(t, s, m).main = m /\ With(t, s, m).unsaved = s
      /\ \A f \in {"cur", "gen", "of", "dirty", "orphan", "hydrated", "due", "auto",
                        "hyd", "undo", "loose", "lost", "returned"} :
                  With(t, s, m)[f] = t[f]
  BY DEF With, TabType
<1>2. ASSUME NEW stage
      PROVE  Goes(With(t, s, m), stage) = With(t, s, [m EXCEPT !.at = stage])
  <2>1. Goes(With(t, s, m), stage) = [With(t, s, m) EXCEPT !.main = [m EXCEPT !.at = stage]]
    BY <1>1 DEF Goes
  <2> DEFINE n == [m EXCEPT !.at = stage]
  <2> HIDE DEF n
  <2>2. [With(t, s, m) EXCEPT !.main = n] = With(t, s, n)
    BY DEF With, TabType
  <2> QED BY <2>1, <2>2 DEF n
<1>3. ASSUME NEW stage
      PROVE  Goes(t, stage) = With(t, t.unsaved, [t.main EXCEPT !.at = stage])
  <2> DEFINE n == [t.main EXCEPT !.at = stage]
  <2>1. Goes(t, stage) = [t EXCEPT !.main = n]
    BY DEF Goes
  <2> HIDE DEF n
  <2>2. [t EXCEPT !.main = n] = With(t, t.unsaved, n)
    BY DEF With, TabType
  <2> QED BY <2>1, <2>2 DEF n
<1> QED BY <1>1, <1>2, <1>3

LEMMA OpeningIs ==
    ASSUME NEW t \in TabType, NEW id \in Ids, NEW new \in BOOLEAN,
           NEW removing \in Ids \cup {NoId}
    PROVE  LET m == Opening(t, id, new, removing) IN
           /\ m \in ChainType
           /\ m.at = IF t.cur = NoId THEN "get" ELSE "prev"
           /\ m.target = id /\ m.new = new /\ m.out = t.cur /\ m.wasDirty = t.dirty
           /\ m.copy.gen = 0 /\ m.copy.of = 0 /\ m.removing = removing
<1>1. /\ 0 \in 0..MaxGeneration /\ 0 \in Nat /\ 2 \in Int
      /\ "get" \in MainStages /\ "prev" \in MainStages
  BY TabsAssumption DEF MainStages
<1>2. [gen |-> 0, of |-> 0, dirty |-> TRUE] \in CopyType
  BY <1>1 DEF CopyType
<1>3. /\ t.cur \in Ids \cup {NoId} /\ t.of \in Nat /\ t.dirty \in BOOLEAN
  BY DEF TabType
<1> DEFINE c == [gen |-> 0, of |-> 0, dirty |-> TRUE]
           at == IF t.cur = NoId THEN "get" ELSE "prev"
<1>4. c \in CopyType /\ c.gen = 0 /\ c.of = 0 /\ at \in MainStages
  BY <1>1, <1>2
<1>5. Opening(t, id, new, removing) =
        [at |-> at, target |-> id, new |-> new, out |-> t.cur, of |-> t.of,
         dirty |-> t.dirty, wasDirty |-> t.dirty, canRestore |-> FALSE, copy |-> c,
         removing |-> removing, tries |-> 2]
  BY DEF Opening
<1> HIDE DEF c, at
<1>6. Opening(t, id, new, removing) \in ChainType
  BY <1>1, <1>3, <1>4, <1>5 DEF ChainType
<1> QED BY <1>4, <1>5, <1>6 DEF at

LEMMA OpenStep ==
    ASSUME IInv, NEW w \in Windows, NEW id \in Ids, Open(w, id) \/ Create(w, id)
    PROVE  Becomes(w)
<1> DEFINE t == tab[w]
<1>0. /\ t \in TabType /\ WindowOK(t, generation) /\ Base(t, generation)
      /\ t.main = Idle /\ t.hyd.at \in {"idle", "net"}
  BY DEF IInv, Open, Create, Settled, WindowOK
<1>1. PICK new \in BOOLEAN : Become(w, Opened(t, id, new)) /\ (new \/ ~t.orphan)
  BY DEF Open, Create
<1> DEFINE m == Opening(t, id, new, NoId)
<1>2. /\ m \in ChainType
      /\ m.at = IF t.cur = NoId THEN "get" ELSE "prev"
      /\ m.target = id /\ m.new = new /\ m.out = t.cur /\ m.wasDirty = t.dirty
      /\ m.copy.gen = 0 /\ m.copy.of = 0 /\ m.removing = NoId
  BY <1>0, OpeningIs
<1>3. Opened(t, id, new) = [Detached(t) EXCEPT !.main = m]
  BY DEF Opened
<1> HIDE DEF m
<1>4. m.at = "prev" => m.out # NoId /\ t.gen <= generation[m.out]
                       /\ (t.hyd.at = "read" => t.hyd.pin = m.out)
  BY <1>0, <1>2 DEF Base, Fenced, Draft
<1>5. t.unsaved => /\ m.wasDirty
                   /\ m.at = "get" => /\ m.out = NoId
                                      /\ m.removing # NoId \/ (m.new /\ t.orphan)
  BY <1>0, <1>1, <1>2 DEF WindowOK, Base, Marked, Edited, Chained
<1>6. m.at \in {"prev", "get", "keep"} /\ m.at # "keep"
  BY <1>2
<1>7. WindowOK([Detached(t) EXCEPT !.main = m], generation)
  BY <1>0, <1>2, <1>4, <1>5, <1>6, Starting
<1> QED BY <1>1, <1>3, <1>7, Became

LEMMA OpenSameStep ==
    ASSUME IInv, NEW w \in Windows, OpenSame(w)
    PROVE  Becomes(w)
<1> DEFINE t == tab[w]
<1>0. /\ t \in TabType /\ WindowOK(t, generation) /\ Base(t, generation) /\ Chained(t)
      /\ t.auto.at # "write" /\ t.hyd.at # "save" /\ t.cur # NoId /\ StoreOK
      /\ Become(w, GivenUp(t, t.cur, t.dirty))
  BY DEF IInv, OpenSame, Quiet, WindowOK
<1>1. t.cur \in Ids /\ t.dirty \in BOOLEAN /\ (t.unsaved => t.dirty)
  BY <1>0 DEF Base, Marked, Edited, TabType
<1>2. WindowOK(GivenUp(t, t.cur, t.dirty), generation)
  BY <1>0, <1>1, GivingUp
<1> QED BY <1>0, <1>2, Became

LEMMA RemoveStep ==
    ASSUME IInv, NEW w \in Windows, NEW id \in Ids, Remove(w, id)
    PROVE  Becomes(w)
<1> DEFINE t == tab[w]
           m(stage) == Removal(t, id, stage)
<1>0. /\ t \in TabType /\ WindowOK(t, generation) /\ Base(t, generation) /\ Chained(t)
      /\ Effect(t) /\ StoreOK /\ t.main = Idle /\ t.hyd.at \in {"idle", "net"}
      /\ t.auto.at # "write" /\ t.hyd.at # "save" /\ id # NoId
  BY TabsAssumption DEF IInv, Remove, Quiet, Settled, WindowOK
<1>1. t.dirty \in BOOLEAN /\ (t.unsaved => t.dirty) /\ t.unsaved \in BOOLEAN
  BY <1>0 DEF Base, Marked, Edited, TabType
<1>2. ASSUME NEW stage \in {"keep", "delete"}
      PROVE  /\ m(stage) \in ChainType /\ m(stage).at = stage /\ m(stage).target = id
             /\ m(stage).removing = id /\ m(stage).wasDirty = t.dirty
             /\ m(stage).copy.gen = 0 /\ m(stage).copy.of = 0 /\ m(stage).out = NoId
  <2> DEFINE o == Opening(t, id, FALSE, id)
  <2>1. /\ o \in ChainType /\ o.target = id /\ o.removing = id /\ o.wasDirty = t.dirty
        /\ o.copy.gen = 0 /\ o.copy.of = 0
    <3>1. PICK new \in BOOLEAN : new = FALSE
      OBVIOUS
    <3>2. id \in Ids \cup {NoId}
      OBVIOUS
    <3> DEFINE p == Opening(t, id, new, id)
    <3>3. /\ p \in ChainType /\ p.target = id /\ p.removing = id /\ p.wasDirty = t.dirty
          /\ p.copy.gen = 0 /\ p.copy.of = 0
      BY <1>0, <3>2, OpeningIs
    <3>4. p = o
      BY <3>1
    <3> HIDE DEF p, o
    <3> QED BY <3>3, <3>4
  <2>2. m(stage) = [o EXCEPT !.at = stage, !.out = NoId, !.tries = 1]
    BY DEF Removal
  <2> HIDE DEF o
  <2>3. stage \in MainStages /\ 1 \in Int
    BY DEF MainStages
  <2> QED BY <2>1, <2>2, <2>3 DEF ChainType
<1> HIDE DEF m
<1>3. CASE t.cur = id /\ MovedOn(t, id)
  <2>1. Become(w, GivenUp(t, id, t.dirty))
    BY <1>3 DEF Remove
  <2>2. WindowOK(GivenUp(t, id, t.dirty), generation)
    BY <1>0, <1>1, <1>3, GivingUp
  <2> QED BY <2>1, <2>2, Became
<1>4. CASE t.cur = id /\ ~MovedOn(t, id)
  <2>1. Become(w, [Detached(t) EXCEPT !.main = m("keep")])
    BY <1>4 DEF Remove, m
  <2>2. t.gen <= generation[id]
    BY <1>0, <1>4 DEF Base, Fenced, Draft
  <2>3. WindowOK([Detached(t) EXCEPT !.main = m("keep")], generation)
    BY <1>0, <1>1, <1>2, <2>2, Starting
  <2> QED BY <2>1, <2>3, Became
<1>5. CASE t.cur # id /\ Visible(id)
  <2>1. Become(w, [t EXCEPT !.main = m("delete")])
    BY <1>5 DEF Remove, m
  <2>2. [t EXCEPT !.main = m("delete")] = With(t, t.unsaved, m("delete"))
    BY <1>0 DEF With, TabType
  <2> DEFINE n == m("delete")
             u == With(t, t.unsaved, n)
  <2>3. /\ n \in ChainType /\ n.at = "delete" /\ n.removing = id /\ n.wasDirty = t.dirty
    BY <1>2
  <2> HIDE DEF n
  <2>4. u.main = n /\ u.unsaved = t.unsaved
    BY <1>0, WithIs
  <2>5. n # Idle
    BY <2>3, IdleAt
  <2>6. Copied(u, generation) /\ Chained(u)
    BY <1>1, <2>3, <2>4, <2>5 DEF Copied, Chained
  <2>7. WindowOK(u, generation)
    BY <1>0, <1>1, <2>3, <2>6, Chaining
  <2> QED BY <2>1, <2>2, <2>7, Became DEF n
<1>6. CASE t.cur # id /\ ~Visible(id)
  <2>1. Become(w, t)
    BY <1>6 DEF Remove
  <2> QED BY <1>0, <2>1, Became
<1> QED BY <1>3, <1>4, <1>5, <1>6

-----------------------------------------------------------------------------
(* The openings and removals, stage by stage *)

LEMMA InChain ==
    ASSUME IInv, NEW w \in Windows, NEW stage \in MainStages, Step(w, stage)
    PROVE  LET t == tab[w]
               m == t.main IN
           /\ StoreOK /\ t \in TabType /\ WindowOK(t, generation)
           /\ Base(t, generation) /\ Effect(t) /\ Chained(t)
           /\ m \in ChainType /\ m.at = stage /\ m # Idle
           /\ t.unsaved \in BOOLEAN
           /\ t.auto.at # "write" /\ t.hyd.at # "save" /\ t.hyd.at # "create"
           /\ t.hyd.at = "read" => t.hyd.pin # NoId
<1> DEFINE t == tab[w]
           m == t.main
<1>1. /\ StoreOK /\ t \in TabType /\ WindowOK(t, generation)
      /\ Base(t, generation) /\ Effect(t) /\ Chained(t)
      /\ m.at = stage /\ t.auto.at # "write" /\ t.hyd.at # "save"
  BY DEF IInv, WindowOK, Step, Quiet
<1>2. m # Idle
  BY <1>1, IdleAt DEF MainStages
<1>3. m \in ChainType /\ t.unsaved \in BOOLEAN
  BY <1>1, <1>2, MainIs DEF TabType
<1>4. t.hyd.at # "create" /\ (t.hyd.at = "read" => t.hyd.pin # NoId)
  BY <1>1, <1>2 DEF Base, Shape
<1> QED BY <1>1, <1>2, <1>3, <1>4

(* A draft that is not dirty, or that gave way, is left as it is stored. *)
LEMMA Leaving ==
    ASSUME IInv, NEW w \in Windows,
           Step(w, "prev") \/ Step(w, "outrecheck"),
           LET t == tab[w]
               m == t.main IN
           Become(w,
             IF m.wasDirty THEN Ended([t EXCEPT !.orphan = TRUE, !.dirty = TRUE], FALSE)
             ELSE Goes(IF Visible(m.out)
                       THEN [t EXCEPT !.main.of = epoch[m.out], !.main.canRestore = TRUE,
                                      !.main.dirty = scenario[m.out].dirty]
                       ELSE t, "get"))
    PROVE  Becomes(w)
<1> DEFINE t == tab[w]
           m == t.main
<1>0. /\ StoreOK /\ t \in TabType /\ WindowOK(t, generation)
      /\ Base(t, generation) /\ Effect(t) /\ Chained(t)
      /\ m \in ChainType /\ m # Idle /\ m.at \in {"prev", "outrecheck"}
      /\ t.unsaved \in BOOLEAN
      /\ t.auto.at # "write" /\ t.hyd.at # "save" /\ t.hyd.at # "create"
      /\ t.hyd.at = "read" => t.hyd.pin # NoId
  BY InChain DEF MainStages
<1>1. m.out \in Ids
  BY <1>0 DEF Base, Shape, ChainType
<1>2. CASE m.wasDirty
  <2>1. PICK o \in BOOLEAN : o = TRUE
    OBVIOUS
  <2> DEFINE u == Dirtied(t, o)
  <2>2. u = [t EXCEPT !.orphan = TRUE, !.dirty = TRUE]
    BY <2>1 DEF Dirtied
  <2>3. Base(u, generation) /\ Effect(u) /\ u.main = t.main /\ u.unsaved = t.unsaved
    <3>1. (t.orphan => o) /\ (o => t.hyd.at # "create")
      BY <1>0, <2>1
    <3> QED BY <1>0, <3>1, Dirtying
  <2> HIDE DEF u
  <2>4. WindowOK(Ended(u, FALSE), generation)
    <3>1. PICK b \in BOOLEAN : b = FALSE
      OBVIOUS
    <3>2. WindowOK(Ended(u, b), generation)
      BY <1>0, <1>2, <2>3, <3>1, Ending
    <3> QED BY <3>1, <3>2
  <2> QED BY <1>2, <2>2, <2>4, Became
<1>3. CASE ~m.wasDirty
  <2>1. ~t.unsaved
    BY <1>0, <1>3 DEF Chained
  <2>2. ASSUME NEW n \in ChainType, n.at = "get", n.copy = m.copy,
               Become(w, With(t, t.unsaved, n))
        PROVE  Becomes(w)
    <3> DEFINE u == With(t, t.unsaved, n)
    <3>1. u.main = n /\ u.unsaved = t.unsaved
      BY <1>0, WithIs
    <3> HIDE DEF u
    <3>2. Copied(u, generation)
      BY <1>0, <2>2, <3>1 DEF Base, Fenced, Copied
    <3>3. Chained(u)
      BY <2>1, <3>1 DEF Chained
    <3>4. WindowOK(u, generation)
      BY <1>0, <2>2, <3>2, <3>3, Chaining DEF u
    <3> QED BY <2>2, <3>4, Became DEF u
  <2>3. "get" \in MainStages
    BY DEF MainStages
  <2>4. CASE Visible(m.out)
    <3> DEFINE a == epoch[m.out]
               c == scenario[m.out].dirty
               k == [m EXCEPT !.of = a, !.canRestore = TRUE, !.dirty = c]
               n == [k EXCEPT !.at = "get"]
    <3>1. a \in Nat /\ c \in BOOLEAN
      BY <1>0, <1>1, <2>4, VisibleIs, TabsAssumption
    <3>2. Become(w, Goes([t EXCEPT !.main.of = a, !.main.canRestore = TRUE,
                                   !.main.dirty = c], "get"))
      BY <1>3, <2>4
    <3> HIDE DEF a, c
    <3>3. [t EXCEPT !.main.of = a, !.main.canRestore = TRUE, !.main.dirty = c]
            = With(t, t.unsaved, k)
      <4>1. t.main = m
        OBVIOUS
      <4> QED BY <1>0 DEF With, TabType, ChainType
    <3>4. n \in ChainType /\ n.at = "get" /\ n.copy = m.copy
      BY <1>0, <2>3, <3>1 DEF ChainType
    <3> HIDE DEF k
    <3>5. Goes(With(t, t.unsaved, k), "get") = With(t, t.unsaved, n)
      BY <1>0, WithIs
    <3> HIDE DEF n
    <3> QED BY <2>2, <3>2, <3>3, <3>4, <3>5
  <2>5. CASE ~Visible(m.out)
    <3> DEFINE n == [m EXCEPT !.at = "get"]
    <3>1. Become(w, Goes(t, "get"))
      BY <1>3, <2>5
    <3>2. Goes(t, "get") = With(t, t.unsaved, n)
      BY <1>0, WithIs
    <3>3. n \in ChainType /\ n.at = "get" /\ n.copy = m.copy
      BY <1>0, <2>3 DEF ChainType
    <3> HIDE DEF n
    <3> QED BY <2>2, <3>1, <3>2, <3>3
  <2> QED BY <2>4, <2>5
<1> QED BY <1>2, <1>3

LEMMA PrevStep ==
    ASSUME IInv, NEW w \in Windows, Prev(w)
    PROVE  Becomes(w)
<1> DEFINE t == tab[w]
           m == t.main
           n == [m EXCEPT !.at = "out"]
           u == With(t, t.unsaved, n)
<1>0. /\ t \in TabType /\ Base(t, generation) /\ Effect(t) /\ Chained(t)
      /\ m \in ChainType /\ m # Idle /\ m.at = "prev"
      /\ t.unsaved \in BOOLEAN
      /\ t.hyd.at # "create" /\ (t.hyd.at = "read" => t.hyd.pin # NoId)
  BY InChain DEF Prev, MainStages
<1>1. CASE MovedOn(t, m.out)
  BY <1>1, Leaving DEF Prev
<1>2. CASE ~MovedOn(t, m.out)
  <2>1. Become(w, Goes(t, "out"))
    BY <1>2 DEF Prev
  <2>2. Goes(t, "out") = u
    BY <1>0, WithIs
  <2>3. /\ n \in ChainType /\ n.at = "out" /\ n.copy = m.copy /\ n.out = m.out
        /\ n.wasDirty = m.wasDirty
    <3>1. "out" \in MainStages
      BY DEF MainStages
    <3> QED BY <1>0, <3>1 DEF ChainType
  <2>4. u.main = n /\ u.unsaved = t.unsaved
    BY <1>0, WithIs
  <2> HIDE DEF n
  <2>5. /\ m.out # NoId /\ t.cur \in {NoId, m.out} /\ t.gen <= generation[m.out]
        /\ t.hyd.at = "read" => t.hyd.pin = m.out
    BY <1>0 DEF Base, Shape, Fenced, Writing
  <2>6. Copied(u, generation)
    BY <1>0, <2>3, <2>4 DEF Base, Fenced, Copied
  <2>7. Chained(u)
    BY <1>0, <2>3, <2>4, IdleAt DEF Chained
  <2>8. WindowOK(u, generation)
    BY <1>0, <2>3, <2>5, <2>6, <2>7, Chaining
  <2> HIDE DEF u
  <2> QED BY <2>1, <2>2, <2>8, Became
<1> QED BY <1>1, <1>2

LEMMA OutRecheckStep ==
    ASSUME IInv, NEW w \in Windows, OutRecheck(w)
    PROVE  Becomes(w)
  BY Leaving DEF OutRecheck

LEMMA OutStep ==
    ASSUME IInv, NEW w \in Windows, Out(w)
    PROVE  Becomes(w)
<1> DEFINE t == tab[w]
           m == t.main
<1>0. /\ t \in TabType /\ Base(t, generation) /\ Effect(t) /\ Chained(t)
      /\ m \in ChainType /\ m # Idle /\ m.at = "out"
      /\ t.unsaved \in BOOLEAN
      /\ t.hyd.at # "create" /\ (t.hyd.at = "read" => t.hyd.pin # NoId)
  BY InChain DEF Out, MainStages
<1>1. "get" \in MainStages /\ "outrecheck" \in MainStages
  BY DEF MainStages
<1>2. CASE Become(w, Goes([t EXCEPT !.unsaved = FALSE, !.main.of = @ + 1,
                                    !.main.canRestore = TRUE], "get"))
  <2>0. PICK s \in BOOLEAN : s = FALSE
    OBVIOUS
  <2> DEFINE a == m.of + 1
             k == [m EXCEPT !.of = a, !.canRestore = TRUE]
             n == [k EXCEPT !.at = "get"]
             u == With(t, s, n)
  <2>a. a \in Nat
    BY <1>0 DEF ChainType
  <2>1. [t EXCEPT !.unsaved = FALSE, !.main.of = @ + 1, !.main.canRestore = TRUE]
          = With(t, s, k)
    BY <1>0, <2>0 DEF With, TabType, ChainType
  <2> HIDE DEF a
  <2>2. n \in ChainType /\ n.at = "get" /\ n.copy = m.copy
    BY <1>0, <1>1, <2>a DEF ChainType
  <2> HIDE DEF k
  <2>3. Goes(With(t, s, k), "get") = u
    BY <1>0, WithIs
  <2>4. u.main = n /\ u.unsaved = FALSE
    BY <1>0, <2>0, WithIs
  <2> HIDE DEF n
  <2>5. Copied(u, generation)
    BY <1>0, <2>2, <2>4 DEF Base, Fenced, Copied
  <2>6. Chained(u)
    BY <2>4 DEF Chained
  <2>7. WindowOK(u, generation)
    BY <1>0, <2>0, <2>2, <2>5, <2>6, Chaining
  <2> HIDE DEF u
  <2> QED BY <1>2, <2>1, <2>3, <2>7, Became
<1>3. CASE Become(w, Goes(t, "outrecheck"))
  <2> DEFINE n == [m EXCEPT !.at = "outrecheck"]
             u == With(t, t.unsaved, n)
  <2>1. Goes(t, "outrecheck") = u
    BY <1>0, WithIs
  <2>2. /\ n \in ChainType /\ n.at = "outrecheck" /\ n.copy = m.copy /\ n.out = m.out
        /\ n.wasDirty = m.wasDirty
    BY <1>0, <1>1 DEF ChainType
  <2>3. u.main = n /\ u.unsaved = t.unsaved
    BY <1>0, WithIs
  <2> HIDE DEF n
  <2>4. m.out # NoId
    BY <1>0 DEF Base, Shape
  <2>5. Copied(u, generation)
    BY <1>0, <2>2, <2>3 DEF Base, Fenced, Copied
  <2>6. Chained(u)
    BY <1>0, <2>2, <2>3, IdleAt DEF Chained
  <2>7. WindowOK(u, generation)
    BY <1>0, <2>2, <2>4, <2>5, <2>6, Chaining
  <2> HIDE DEF u
  <2> QED BY <1>3, <2>1, <2>7, Became
<1> QED BY <1>2, <1>3 DEF Out

LEMMA GetStep ==
    ASSUME IInv, NEW w \in Windows, Get(w)
    PROVE  Becomes(w)
<1> DEFINE t == tab[w]
           m == t.main
<1>0. /\ t \in TabType /\ Base(t, generation) /\ Effect(t) /\ Chained(t) /\ StoreOK
      /\ m \in ChainType /\ m # Idle /\ m.at = "get"
      /\ t.unsaved \in BOOLEAN
      /\ t.hyd.at # "create" /\ (t.hyd.at = "read" => t.hyd.pin # NoId)
  BY InChain DEF Get, MainStages
<1>1. "put" \in MainStages /\ "catch" \in MainStages /\ m.target \in Ids
  BY <1>0 DEF MainStages, ChainType
<1>2. ASSUME NEW n \in ChainType, n.at \in {"put", "catch"},
             n.at = "put" => /\ n.copy.gen <= generation[n.target]
                             /\ n.copy.of = n.copy.gen,
             n.target = m.target, n.new = m.new, n.out = m.out, n.wasDirty = m.wasDirty,
             n.removing = m.removing,
             Become(w, With(t, t.unsaved, n))
      PROVE  Becomes(w)
  <2> DEFINE u == With(t, t.unsaved, n)
  <2>1. u.main = n /\ u.unsaved = t.unsaved /\ u.orphan = t.orphan
    BY <1>0, WithIs
  <2> HIDE DEF u
  <2>2. Copied(u, generation)
    BY <1>2, <2>1 DEF Copied
  <2>3. Chained(u)
    BY <1>0, <1>2, <2>1, IdleAt DEF Chained
  <2>4. WindowOK(u, generation)
    BY <1>0, <1>2, <2>2, <2>3, Chaining DEF u
  <2> QED BY <1>2, <2>4, Became DEF u
<1>3. CASE Visible(m.target)
  <2> DEFINE c == [gen |-> scenario[m.target].generation, of |-> epoch[m.target],
                   dirty |-> scenario[m.target].dirty]
             k == [m EXCEPT !.copy = c]
             n == [k EXCEPT !.at = "put"]
  <2>1. c \in CopyType /\ c.gen = generation[m.target] /\ c.of = c.gen
    <3>1. /\ scenario[m.target].generation = generation[m.target]
          /\ epoch[m.target] = generation[m.target]
          /\ generation[m.target] \in 0..MaxGeneration /\ generation[m.target] \in Nat
          /\ scenario[m.target].dirty \in BOOLEAN
      BY <1>0, <1>1, <1>3, VisibleIs, TabsAssumption
    <3> QED BY <3>1 DEF CopyType
  <2>2. generation[m.target] \in Int
    BY <1>0, <1>1 DEF StoreOK
  <2>3. Become(w, Goes([t EXCEPT !.main.copy = c], "put"))
    BY <1>3 DEF Get
  <2> HIDE DEF c
  <2>4. [t EXCEPT !.main.copy = c] = With(t, t.unsaved, k)
    BY <1>0 DEF With, TabType
  <2>5. /\ n \in ChainType /\ n.at = "put" /\ n.copy = c
        /\ n.target = m.target /\ n.new = m.new /\ n.out = m.out
        /\ n.wasDirty = m.wasDirty /\ n.removing = m.removing
    BY <1>0, <1>1, <2>1 DEF ChainType
  <2> HIDE DEF k
  <2>6. Goes(With(t, t.unsaved, k), "put") = With(t, t.unsaved, n)
    BY <1>0, WithIs
  <2> HIDE DEF n
  <2> QED BY <1>2, <2>1, <2>2, <2>3, <2>4, <2>5, <2>6
<1>4. ASSUME ~Visible(m.target), NEW stage \in {"put", "catch"}, Become(w, Goes(t, stage))
      PROVE  Becomes(w)
  <2> DEFINE n == [m EXCEPT !.at = stage]
  <2>1. Goes(t, stage) = With(t, t.unsaved, n)
    BY <1>0, WithIs
  <2>2. /\ n \in ChainType /\ n.at = stage /\ n.copy = m.copy
        /\ n.target = m.target /\ n.new = m.new /\ n.out = m.out
        /\ n.wasDirty = m.wasDirty /\ n.removing = m.removing
    BY <1>0, <1>1 DEF ChainType
  <2>3. m.copy.gen = 0 /\ m.copy.of = 0
    BY <1>0 DEF Base, Fenced, Copied
  <2>4. 0 <= generation[m.target]
    BY <1>0, <1>1 DEF StoreOK
  <2> HIDE DEF n
  <2> QED BY <1>2, <1>4, <2>1, <2>2, <2>3, <2>4
<1>5. CASE ~Visible(m.target)
  <2>1. Become(w, Goes(t, "put")) \/ Become(w, Goes(t, "catch"))
    BY <1>5 DEF Get
  <2> QED BY <1>4, <1>5, <2>1
<1> QED BY <1>3, <1>5

LEMMA PutStep ==
    ASSUME IInv, NEW w \in Windows, Put(w)
    PROVE  Becomes(w)
<1> DEFINE t == tab[w]
           m == t.main
           s == t.unsaved /\ ~(m.new /\ t.orphan)
<1>0. /\ t \in TabType /\ Base(t, generation) /\ Effect(t) /\ Chained(t)
      /\ m \in ChainType /\ m # Idle /\ m.at = "put"
      /\ t.unsaved \in BOOLEAN
      /\ t.hyd.at # "create" /\ (t.hyd.at = "read" => t.hyd.pin # NoId)
  BY InChain DEF Put, MainStages
<1>1. "point" \in MainStages /\ "catch" \in MainStages
  BY DEF MainStages
<1>2. s \in BOOLEAN /\ (s => t.unsaved /\ ~(m.new /\ t.orphan))
  OBVIOUS
<1>3. \/ Become(w, Goes([t EXCEPT !.unsaved = s], "point"))
      \/ Become(w, Goes(t, "catch"))
  BY DEF Put
<1> HIDE DEF s
<1>4. [t EXCEPT !.unsaved = s] = With(t, s, m)
  BY <1>0 DEF With, TabType
<1>5. ASSUME NEW stage \in {"point", "catch"}, NEW x \in {s, t.unsaved},
             stage = "point" => x = s,
             Become(w, With(t, x, [m EXCEPT !.at = stage]))
      PROVE  Becomes(w)
  <2> DEFINE n == [m EXCEPT !.at = stage]
             u == With(t, x, n)
  <2>1. /\ n \in ChainType /\ n.at = stage /\ n.copy = m.copy
        /\ n.target = m.target /\ n.new = m.new /\ n.out = m.out
        /\ n.wasDirty = m.wasDirty /\ n.removing = m.removing
    BY <1>0, <1>1 DEF ChainType
  <2>2. u.main = n /\ u.unsaved = x /\ u.orphan = t.orphan
    BY <1>0, WithIs
  <2>3. x \in BOOLEAN /\ (x => t.unsaved)
    BY <1>0, <1>2
  <2> HIDE DEF n
  <2>4. Copied(u, generation)
    BY <1>0, <1>5, <2>1, <2>2 DEF Base, Fenced, Copied
  <2>5. Chained(u)
    BY <1>0, <1>2, <1>5, <2>1, <2>2, <2>3, IdleAt DEF Chained
  <2>6. WindowOK(u, generation)
    BY <1>0, <2>1, <2>3, <2>4, <2>5, Chaining
  <2> HIDE DEF u
  <2>7. Become(w, u)
    BY <1>5 DEF u, n
  <2> QED BY <2>6, <2>7, Became
<1>6. CASE Become(w, Goes([t EXCEPT !.unsaved = s], "point"))
  BY <1>0, <1>4, <1>5, <1>6, WithIs
<1>7. CASE Become(w, Goes(t, "catch"))
  BY <1>0, <1>5, <1>7, WithIs
<1> QED BY <1>3, <1>6, <1>7

(* A chain shows the draft of v, which it hydrates next, and ends. *)
LEMMA Showing ==
    ASSUME NEW g, NEW w \in Windows, NEW v \in TabType, NEW r \in BOOLEAN, NEW opened \in BOOLEAN,
           g = generation,
           Draft(v, g), Writing(v, g), Copied(v, g), v.cur # NoId,
           v.main # Idle, v.main.at \notin {"prev", "out", "outrecheck", "keep"},
           v.main.at = "back" => v.main.out # NoId,
           v.main.at \in {"switch", "delete", "recover"} => v.main.removing # NoId,
           v.hyd.at # "save",
           r \/ v.of = v.gen \/ v.gen < g[v.cur],
           "settled" \notin v.lost /\ ~v.unsaved,
           Become(w, Ended([Rehydrating(Replaced(v)) EXCEPT !.returned = r], opened))
    PROVE  Becomes(w)
<1> DEFINE h == [at |-> "read", pin |-> v.cur]
           x == [v EXCEPT !.hyd = h]
           y == [Replaced(x) EXCEPT !.returned = r]
<1>1. h \in HydType /\ h.at = "read" /\ h.pin = v.cur
  BY DEF HydType, TabType
<1>2. Replaced(v).cur = v.cur
  BY ReplacedIs
<1>3. Rehydrating(Replaced(v)) = [Replaced(v) EXCEPT !.hyd = h]
  BY <1>2 DEF Rehydrating
<1> HIDE DEF h
<1>4. Rehydrating(Replaced(v)) = Replaced(x)
  BY <1>1, <1>3, HydCommutes
<1>5. /\ x \in TabType /\ x.hyd = h
      /\ x.cur = v.cur /\ x.gen = v.gen /\ x.of = v.of /\ x.unsaved = v.unsaved
      /\ x.auto = v.auto /\ x.main = v.main
      /\ x.lost = v.lost /\ x.loose = v.loose /\ x.returned = v.returned
  BY <1>1 DEF TabType
<1> HIDE DEF x
<1>6. Fenced(x, g)
  BY <1>1, <1>5 DEF Fenced, Draft, Writing, Copied
<1>7. Shape(x)
  BY <1>1, <1>5 DEF Shape
<1>8. "settled" \notin x.lost /\ ~x.unsaved /\ KeptByHyd(x)
  BY <1>1, <1>5 DEF KeptByHyd
<1>9. WindowOK(y, g) /\ y.main = x.main /\ y.unsaved = FALSE
  BY <1>5, <1>6, <1>7, <1>8, Replacing
<1>10. Become(w, Ended(y, opened))
  BY <1>4
<1> HIDE DEF y
<1>11. WindowOK(Ended(y, opened), g)
  BY <1>5, <1>9, Ending DEF WindowOK
<1> QED BY <1>10, <1>11, Became

LEMMA PointStep ==
    ASSUME IInv, NEW w \in Windows, Point(w)
    PROVE  Becomes(w)
<1> DEFINE t == tab[w]
           m == t.main
           c == m.copy
<1>0. /\ t \in TabType /\ Base(t, generation) /\ Effect(t) /\ Chained(t) /\ StoreOK
      /\ m \in ChainType /\ m # Idle /\ m.at = "point"
      /\ t.unsaved \in BOOLEAN
      /\ t.auto.at # "write" /\ t.hyd.at # "save"
      /\ t.hyd.at # "create" /\ (t.hyd.at = "read" => t.hyd.pin # NoId)
  BY InChain DEF Point, MainStages
<1>1. /\ m.target \in Ids /\ m.target # NoId /\ c.gen \in 0..MaxGeneration /\ c.of \in Nat
      /\ c.dirty \in BOOLEAN /\ c.gen <= generation[m.target] /\ c.of = c.gen
  BY <1>0, TabsAssumption DEF ChainType, CopyType, Base, Fenced, Copied
<1>2. CASE Visible(m.target)
  <2> DEFINE b == IF m.removing # NoId THEN Abandoned(t) ELSE t
             v == [b EXCEPT !.cur = m.target, !.gen = c.gen, !.of = c.of,
                            !.dirty = c.dirty, !.orphan = FALSE]
             r == Replaced(v)
  <2>1. /\ b \in TabType /\ b.main = m /\ b.auto = t.auto /\ b.hyd = t.hyd
        /\ "settled" \notin b.lost /\ ~b.unsaved
    <3>1. CASE m.removing # NoId
      <4> DEFINE l == IF t.unsaved THEN t.lost \cup {"refused"} ELSE t.lost
      <4>1. l \in SUBSET Losses /\ "settled" \notin l
        BY <1>0 DEF Base, TabType, Losses
      <4>2. b = [t EXCEPT !.lost = l, !.unsaved = FALSE]
        BY <3>1 DEF Abandoned
      <4> HIDE DEF b, l
      <4> QED BY <1>0, <4>1, <4>2 DEF TabType
    <3>2. CASE m.removing = NoId
      <4>1. ~t.unsaved
        BY <1>0, <3>2 DEF Chained
      <4> QED BY <1>0, <3>2, <4>1 DEF Base
    <3> QED BY <3>1, <3>2
  <2>2. Become(w, Ended(Rehydrating(r), TRUE))
    BY <1>2 DEF Point
  <2> HIDE DEF b
  <2>3. /\ v \in TabType /\ v.cur = m.target /\ v.gen = c.gen /\ v.of = c.of
        /\ v.main = m /\ v.auto = t.auto /\ v.hyd = t.hyd /\ v.lost = b.lost
        /\ v.unsaved = b.unsaved
    BY <1>0, <1>1, <2>1 DEF TabType
  <2> HIDE DEF v
  <2>4. Draft(v, generation) /\ Writing(v, generation) /\ Copied(v, generation)
    BY <1>0, <1>1, <2>3 DEF Base, Fenced, Draft, Writing, Copied
  <2>5. "settled" \notin v.lost /\ ~v.unsaved
    BY <2>1, <2>3
  <2>6. PICK e \in BOOLEAN, opened \in BOOLEAN : e = FALSE /\ opened = TRUE
    OBVIOUS
  <2> DEFINE y == Rehydrating(Replaced(v))
  <2>7. y = [y EXCEPT !.returned = e]
    <3>1. Replaced(v) \in TabType /\ Replaced(v).returned = FALSE
      BY <2>3, ReplacedIs
    <3> DEFINE z == Replaced(v)
               k == [at |-> "read", pin |-> z.cur]
    <3>2. y = [z EXCEPT !.hyd = k]
      BY DEF Rehydrating
    <3> HIDE DEF z, k, y
    <3>3. z \in TabType /\ z.returned = FALSE
      BY <3>1 DEF z
    <3> QED BY <2>6, <3>2, <3>3 DEF TabType
  <2>8. Become(w, Ended([y EXCEPT !.returned = e], opened))
    BY <2>2, <2>6, <2>7 DEF v
  <2> QED BY <1>0, <1>1, <2>3, <2>4, <2>5, <2>8, Showing
<1>3. CASE ~Visible(m.target)
  <2> DEFINE n == [m EXCEPT !.at = "catch"]
             u == With(t, t.unsaved, n)
  <2>1. Become(w, Goes(t, "catch"))
    BY <1>3 DEF Point
  <2>2. Goes(t, "catch") = u
    BY <1>0, WithIs
  <2>3. /\ n \in ChainType /\ n.at = "catch" /\ n.out = m.out /\ n.wasDirty = m.wasDirty
    <3>1. "catch" \in MainStages
      BY DEF MainStages
    <3> QED BY <1>0, <3>1 DEF ChainType
  <2>4. u.main = n /\ u.unsaved = t.unsaved
    BY <1>0, WithIs
  <2> HIDE DEF n
  <2>5. Copied(u, generation)
    BY <2>3, <2>4 DEF Copied
  <2>6. Chained(u)
    BY <1>0, <2>3, <2>4, IdleAt DEF Chained
  <2>7. WindowOK(u, generation)
    BY <1>0, <2>3, <2>5, <2>6, Chaining
  <2> HIDE DEF u
  <2> QED BY <2>1, <2>2, <2>7, Became
<1> QED BY <1>2, <1>3

LEMMA EndingTwice ==  \* both outcomes of an opening
    ASSUME NEW w \in Windows, NEW t, Base(t, generation), Effect(t), t.main # Idle,
           (t.unsaved => t.main.wasDirty),
           Become(w, Ended(t, FALSE)) \/ Become(w, Ended(t, TRUE))
    PROVE  Becomes(w)
<1>1. PICK e \in BOOLEAN : Become(w, Ended(t, e))
  OBVIOUS
<1>2. WindowOK(Ended(t, e), generation)
  BY Ending
<1> QED BY <1>1, <1>2, Became

LEMMA CatchStep ==
    ASSUME IInv, NEW w \in Windows, Catch(w)
    PROVE  Becomes(w)
<1> DEFINE t == tab[w]
           m == t.main
<1>0. /\ t \in TabType /\ Base(t, generation) /\ Effect(t) /\ Chained(t) /\ StoreOK
      /\ m \in ChainType /\ m # Idle /\ m.at = "catch"
      /\ t.unsaved \in BOOLEAN
      /\ t.hyd.at # "create" /\ (t.hyd.at = "read" => t.hyd.pin # NoId)
  BY InChain DEF Catch, MainStages
<1>1. (t.unsaved => m.wasDirty /\ m.out = NoId)
  BY <1>0 DEF Chained
<1>2. CASE m.out = NoId
  BY <1>0, <1>1, <1>2, EndingTwice DEF Catch
<1>3. CASE m.out # NoId /\ Visible(m.out) /\ (m.canRestore \/ ~m.wasDirty)
  <2> DEFINE o == IF m.canRestore THEN m.of ELSE epoch[m.out]
             d == IF m.canRestore THEN m.dirty ELSE scenario[m.out].dirty
             c == [gen |-> scenario[m.out].generation, of |-> o, dirty |-> d]
             n == [m EXCEPT !.at = "back", !.copy = c]
             u == With(t, t.unsaved, n)
  <2>0. m.out \in Ids
    BY <1>0, <1>3 DEF ChainType
  <2>1. c \in CopyType /\ c.gen = generation[m.out] /\ generation[m.out] \in Int
    <3>1. /\ scenario[m.out].generation = generation[m.out]
          /\ epoch[m.out] = generation[m.out]
          /\ generation[m.out] \in 0..MaxGeneration /\ generation[m.out] \in Nat
          /\ scenario[m.out].dirty \in BOOLEAN
      BY <1>0, <1>3, <2>0, VisibleIs, TabsAssumption
    <3>2. o \in Nat /\ d \in BOOLEAN
      BY <1>0, <3>1 DEF ChainType
    <3> HIDE DEF o, d
    <3> QED BY <3>1, <3>2 DEF CopyType
  <2>2. Become(w, [t EXCEPT !.main = n])
    BY <1>3 DEF Catch
  <2> HIDE DEF c
  <2>3. [t EXCEPT !.main = n] = u
    BY <1>0 DEF With, TabType
  <2>4. "back" \in MainStages
    BY DEF MainStages
  <2>5. n \in ChainType /\ n.at = "back" /\ n.out = m.out /\ n.copy = c
    BY <1>0, <2>1, <2>4 DEF ChainType
  <2>6. u.main = n /\ u.unsaved = t.unsaved
    BY <1>0, WithIs
  <2> HIDE DEF n
  <2>7. Copied(u, generation)
    BY <2>1, <2>5, <2>6 DEF Copied
  <2>8. Chained(u)
    BY <1>1, <1>3, <2>6 DEF Chained
  <2>9. WindowOK(u, generation)
    BY <1>0, <1>3, <2>5, <2>7, <2>8, Chaining
  <2> HIDE DEF u
  <2> QED BY <2>2, <2>3, <2>9, Became
<1>4. CASE /\ m.out # NoId /\ ~(Visible(m.out) /\ (m.canRestore \/ ~m.wasDirty))
           /\ m.wasDirty
  <2> DEFINE l == t.lost \cup (Unkept(t) \cap {"loose"})
             k == [t EXCEPT !.lost = l, !.loose = FALSE]
  <2>1. Become(w, Ended(Orphaned(k), FALSE))
    BY <1>4 DEF Catch
  <2>2. l \in SUBSET Losses /\ "settled" \notin l
    BY <1>0 DEF Base, TabType, Losses
  <2> HIDE DEF l
  <2>3. /\ k \in TabType /\ k.lost = l /\ k.loose = FALSE
        /\ k.cur = t.cur /\ k.gen = t.gen /\ k.of = t.of /\ k.auto = t.auto
        /\ k.due = t.due /\ k.dirty = t.dirty /\ k.hyd = t.hyd /\ k.main = m
        /\ k.unsaved = t.unsaved /\ k.orphan = t.orphan /\ k.returned = t.returned
    BY <1>0, <2>2 DEF TabType
  <2> HIDE DEF k
  <2>4. Base(k, generation)
    BY <1>0, <2>2, <2>3
       DEF Base, Fenced, Draft, Writing, Copied, Shape, Marked, Edited, KeptByHyd
  <2>5. Chained(k)
    BY <1>0, <2>3 DEF Chained
  <2>6. WindowOK(Orphaned(k), generation)
    BY <1>0, <2>3, <2>4, <2>5, Orphaning
  <2>7. Orphaned(k).main = m
    <3>1. PICK o \in BOOLEAN : o = TRUE
      OBVIOUS
    <3>2. Orphaned(k) = Detached(Dirtied(k, o))
      BY <3>1 DEF Orphaned, Dirtied
    <3>3. Base(Dirtied(k, o), generation) /\ Dirtied(k, o).main = m
      <4>1. (k.orphan => o) /\ (o => k.hyd.at # "create")
        BY <1>0, <2>3, <3>1
      <4> QED BY <2>3, <2>4, <4>1, Dirtying
    <3> QED BY <3>2, <3>3, Detaching
  <2> QED BY <1>0, <1>4, <2>1, <2>6, <2>7, EndingTwice DEF WindowOK
<1>5. CASE /\ m.out # NoId /\ ~(Visible(m.out) /\ (m.canRestore \/ ~m.wasDirty))
           /\ ~m.wasDirty
  <2>1. Become(w, Ended(Detached(t), FALSE))
    BY <1>5 DEF Catch
  <2>2. /\ Base(Detached(t), generation) /\ Effect(Detached(t))
        /\ Detached(t).main = m /\ Detached(t).unsaved = t.unsaved
    BY <1>0, Detaching
  <2> QED BY <1>0, <1>1, <2>1, <2>2, EndingTwice
<1> QED BY <1>2, <1>3, <1>4, <1>5

LEMMA BackStep ==
    ASSUME IInv, NEW w \in Windows, Back(w)
    PROVE  Becomes(w)
<1> DEFINE t == tab[w]
           m == t.main
           c == m.copy
<1>0. /\ t \in TabType /\ Base(t, generation) /\ Effect(t) /\ Chained(t) /\ StoreOK
      /\ m \in ChainType /\ m # Idle /\ m.at = "back"
      /\ t.unsaved \in BOOLEAN
      /\ t.auto.at # "write" /\ t.hyd.at # "save"
      /\ t.hyd.at # "create" /\ (t.hyd.at = "read" => t.hyd.pin # NoId)
  BY InChain DEF Back, MainStages
<1>1. /\ m.out \in Ids /\ m.out # NoId /\ c.gen \in 0..MaxGeneration /\ c.of \in Nat
      /\ c.dirty \in BOOLEAN /\ c.gen <= generation[m.out]
  BY <1>0 DEF ChainType, CopyType, Base, Fenced, Copied, Shape
<1>2. ~t.unsaved
  BY <1>0, <1>1 DEF Chained
<1>3. CASE Visible(m.out)
  <2> DEFINE v == [t EXCEPT !.cur = m.out, !.gen = c.gen, !.of = c.of, !.dirty = c.dirty]
             r == c.gen = generation[m.out] /\ c.of # epoch[m.out]
  <2>1. Become(w, Ended([Rehydrating(Replaced(v)) EXCEPT !.returned = r], FALSE))
    BY <1>3 DEF Back
  <2>2. /\ v \in TabType /\ v.cur = m.out /\ v.gen = c.gen /\ v.of = c.of
        /\ v.main = m /\ v.auto = t.auto /\ v.hyd = t.hyd /\ v.lost = t.lost
        /\ v.loose = t.loose /\ v.unsaved = t.unsaved /\ v.returned = t.returned
    BY <1>0, <1>1 DEF TabType
  <2> HIDE DEF v
  <2>3. epoch[m.out] = generation[m.out] /\ generation[m.out] \in Int
    BY <1>0, <1>1 DEF StoreOK
  <2>4. r \in BOOLEAN /\ (r \/ v.of = v.gen \/ v.gen < generation[m.out])
    BY <1>1, <2>2, <2>3
  <2> HIDE DEF r
  <2>5. [v EXCEPT !.returned = r] \in TabType
    BY <2>2, <2>4 DEF TabType
  <2> DEFINE x == [v EXCEPT !.returned = r]
  <2>6. /\ x.cur = m.out /\ x.gen = c.gen /\ x.of = c.of
        /\ x.main = m /\ x.auto = t.auto /\ x.hyd = t.hyd /\ x.lost = t.lost /\ x.loose = t.loose
        /\ x.unsaved = t.unsaved /\ x.returned = r
    BY <2>2, <2>4 DEF TabType
  <2>7. Replaced(x) = Replaced(v)
    <3> DEFINE a == IF v.auto.at = "write"
                    THEN [v.auto EXCEPT !.covers = FALSE, !.live = FALSE] ELSE Idle
               l == v.lost \cup Unkept(v)
               d == v.cur # NoId
    <3>1. Replaced(v) = [v EXCEPT !.lost = l, !.unsaved = FALSE, !.loose = FALSE,
                                  !.returned = FALSE, !.due = d, !.auto = a]
      BY <2>2, ReplacedIs
    <3>2. Replaced(x) = [x EXCEPT !.lost = l, !.unsaved = FALSE, !.loose = FALSE,
                                  !.returned = FALSE, !.due = d, !.auto = a]
      <4> HIDE DEF x
      <4>1. Replaced(x) =
              [x EXCEPT !.lost = x.lost \cup Unkept(x), !.unsaved = FALSE,
                        !.loose = FALSE, !.returned = FALSE,
                        !.due = x.cur # NoId,
                        !.auto = IF x.auto.at = "write"
                                 THEN [x.auto EXCEPT !.covers = FALSE, !.live = FALSE]
                                 ELSE Idle]
        BY <2>5, ReplacedIs DEF x
      <4>2. Unkept(x) = Unkept(v)
        BY <2>2, <2>6 DEF Unkept
      <4> QED BY <2>2, <2>6, <4>1, <4>2, Zenon
    <3> HIDE DEF a, l, d
    <3> QED BY <2>2, <3>1, <3>2 DEF TabType
  <2>8. Become(w, Ended([Rehydrating(Replaced(x)) EXCEPT !.returned = r], FALSE))
    BY <2>1, <2>7
  <2> HIDE DEF x
  <2>9. x \in TabType
    BY <2>5 DEF x
  <2>10. Draft(x, generation) /\ Writing(x, generation) /\ Copied(x, generation)
    BY <1>0, <1>1, <2>2, <2>4, <2>6 DEF Base, Fenced, Draft, Writing, Copied
  <2>11. "settled" \notin x.lost /\ ~x.unsaved
    BY <1>0, <1>2, <2>6 DEF Base
  <2>12. PICK e \in BOOLEAN : e = FALSE
    OBVIOUS
  <2>13. Become(w, Ended([Rehydrating(Replaced(x)) EXCEPT !.returned = r], e))
    BY <2>8, <2>12
  <2>14. r \/ x.of = x.gen \/ x.gen < generation[x.cur]
    BY <2>2, <2>4, <2>6
  <2> QED BY <1>0, <1>1, <2>4, <2>6, <2>9, <2>10, <2>11, <2>13, <2>14, Showing
<1>4. CASE ~Visible(m.out)
  <2>1. Become(w, Ended(t, FALSE))
    BY <1>4 DEF Back
  <2>2. (t.unsaved => m.wasDirty)
    BY <1>2
  <2> QED BY <1>0, <2>1, <2>2, EndingTwice
<1> QED BY <1>3, <1>4

LEMMA KeepStep ==
    ASSUME IInv, NEW w \in Windows, Keep(w)
    PROVE  Becomes(w)
<1> DEFINE t == tab[w]
           m == t.main
<1>0. /\ t \in TabType /\ Base(t, generation) /\ Effect(t) /\ Chained(t)
      /\ m \in ChainType /\ m # Idle /\ m.at = "keep"
      /\ t.unsaved \in BOOLEAN
      /\ t.hyd.at # "create" /\ (t.hyd.at = "read" => t.hyd.pin # NoId)
  BY InChain DEF Keep, MainStages
<1>1. /\ "switch" \in MainStages /\ "recover" \in MainStages /\ m.removing # NoId
      /\ m.copy.gen = 0 /\ m.copy.of = 0
  BY <1>0 DEF MainStages, Base, Shape, Fenced, Copied
<1>2. PICK s \in BOOLEAN : s = FALSE
  OBVIOUS
<1>3. ASSUME NEW n \in ChainType, n.at \in {"switch", "recover"},
             n.copy = m.copy, n.removing = m.removing, n.wasDirty = m.wasDirty,
             NEW x \in BOOLEAN, x => t.unsaved, n.at = "switch" => ~x,
             Become(w, With(t, x, n))
      PROVE  Becomes(w)
  <2> DEFINE u == With(t, x, n)
  <2>1. u.main = n /\ u.unsaved = x
    BY <1>0, WithIs
  <2> HIDE DEF u
  <2>2. Copied(u, generation)
    BY <1>1, <1>3, <2>1 DEF Copied
  <2>3. Chained(u)
    BY <1>0, <1>3, <2>1, IdleAt DEF Chained
  <2>4. WindowOK(u, generation)
    BY <1>0, <1>1, <1>3, <2>2, <2>3, Chaining DEF u
  <2> QED BY <1>3, <2>4, Became DEF u
<1>4. CASE Become(w, Goes([t EXCEPT !.unsaved = FALSE, !.main.tries = 2], "switch"))
  <2> DEFINE k == [m EXCEPT !.tries = 2]
             n == [k EXCEPT !.at = "switch"]
  <2>1. [t EXCEPT !.unsaved = FALSE, !.main.tries = 2] = With(t, s, k)
    BY <1>0, <1>2 DEF With, TabType
  <2>2. /\ n \in ChainType /\ n.at = "switch" /\ n.copy = m.copy
        /\ n.removing = m.removing /\ n.wasDirty = m.wasDirty
    <3>1. 2 \in Int
      OBVIOUS
    <3>2. /\ k \in ChainType /\ k.copy = m.copy
          /\ k.removing = m.removing /\ k.wasDirty = m.wasDirty
      BY <1>0, <3>1 DEF ChainType
    <3> HIDE DEF k
    <3> QED BY <1>1, <3>2 DEF ChainType
  <2> HIDE DEF k
  <2>3. Goes(With(t, s, k), "switch") = With(t, s, n)
    BY <1>0, WithIs
  <2> HIDE DEF n
  <2> QED BY <1>2, <1>3, <1>4, <2>1, <2>2, <2>3
<1>5. CASE Become(w, Goes(t, "recover"))
  <2> DEFINE n == [m EXCEPT !.at = "recover"]
  <2>1. Goes(t, "recover") = With(t, t.unsaved, n)
    BY <1>0, WithIs
  <2>2. /\ n \in ChainType /\ n.at = "recover" /\ n.copy = m.copy
        /\ n.removing = m.removing /\ n.wasDirty = m.wasDirty
    BY <1>0, <1>1 DEF ChainType
  <2> HIDE DEF n
  <2> QED BY <1>0, <1>3, <1>5, <2>1, <2>2
<1> QED BY <1>4, <1>5 DEF Keep

LEMMA SwitchStep ==
    ASSUME IInv, NEW w \in Windows, Switch(w)
    PROVE  Becomes(w)
<1> DEFINE t == tab[w]
           m == t.main
<1>0. /\ t \in TabType /\ Base(t, generation) /\ Effect(t) /\ Chained(t)
      /\ m \in ChainType /\ m # Idle /\ m.at = "switch"
      /\ t.unsaved \in BOOLEAN
      /\ t.hyd.at # "create" /\ (t.hyd.at = "read" => t.hyd.pin # NoId)
  BY InChain DEF Switch, MainStages
<1>1. PICK id \in Ids, new \in BOOLEAN :
          Become(w, [t EXCEPT !.main = [m EXCEPT !.at = "get", !.target = id, !.new = new]])
  BY DEF Switch
<1> DEFINE n == [m EXCEPT !.at = "get", !.target = id, !.new = new]
           u == With(t, t.unsaved, n)
<1>2. "get" \in MainStages /\ m.copy.gen = 0 /\ m.copy.of = 0 /\ ~t.unsaved
  BY <1>0 DEF MainStages, Base, Fenced, Copied, Chained
<1>3. [t EXCEPT !.main = n] = u
  BY <1>0 DEF With, TabType
<1>4. n \in ChainType /\ n.at = "get" /\ n.copy = m.copy
  BY <1>0, <1>2 DEF ChainType
<1>5. u.main = n /\ u.unsaved = t.unsaved
  BY <1>0, WithIs
<1>6. Become(w, [t EXCEPT !.main = n])
  BY <1>1
<1> HIDE DEF n
<1>7. Copied(u, generation)
  BY <1>2, <1>4, <1>5 DEF Copied
<1>8. Chained(u)
  BY <1>2, <1>5 DEF Chained
<1>9. WindowOK(u, generation)
  BY <1>0, <1>4, <1>7, <1>8, Chaining
<1> HIDE DEF u
<1> QED BY <1>3, <1>6, <1>9, Became

LEMMA RecoverStep ==
    ASSUME IInv, NEW w \in Windows, Recover(w)
    PROVE  Becomes(w)
<1> DEFINE t == tab[w]
           m == t.main
           o == Opening(t, m.removing, FALSE, m.removing)
           i == m.tries - 1
           again == [o EXCEPT !.dirty = m.wasDirty, !.wasDirty = m.wasDirty, !.tries = i]
<1>0. /\ t \in TabType /\ Base(t, generation) /\ Effect(t) /\ Chained(t)
      /\ m \in ChainType /\ m # Idle /\ m.at = "recover"
      /\ t.unsaved \in BOOLEAN
      /\ t.hyd.at # "create" /\ (t.hyd.at = "read" => t.hyd.pin # NoId)
  BY InChain DEF Recover, MainStages
<1>1. m.removing \in Ids /\ m.removing # NoId /\ i \in Int /\ m.wasDirty \in BOOLEAN
  BY <1>0 DEF Base, Shape, ChainType
<1>2. (t.unsaved => m.wasDirty)
  BY <1>0 DEF Chained
<1>3. CASE Visible(m.removing)
  <2>1. Become(w, [Detached(t) EXCEPT !.main = again])
    BY <1>3 DEF Recover
  <2>2. /\ o \in ChainType /\ o.at = IF t.cur = NoId THEN "get" ELSE "prev"
        /\ o.out = t.cur /\ o.copy.gen = 0 /\ o.copy.of = 0 /\ o.removing = m.removing
    <3>1. PICK new \in BOOLEAN : new = FALSE
      OBVIOUS
    <3> DEFINE p == Opening(t, m.removing, new, m.removing)
    <3>2. /\ p \in ChainType /\ p.at = IF t.cur = NoId THEN "get" ELSE "prev"
          /\ p.out = t.cur /\ p.copy.gen = 0 /\ p.copy.of = 0 /\ p.removing = m.removing
      BY <1>0, <1>1, OpeningIs
    <3>3. p = o
      BY <3>1
    <3> HIDE DEF p, o
    <3> QED BY <3>2, <3>3
  <2> HIDE DEF o, i
  <2>3. /\ again \in ChainType /\ again.at = o.at /\ again.out = o.out
        /\ again.copy = o.copy /\ again.removing = o.removing
        /\ again.wasDirty = m.wasDirty
    BY <1>1, <2>2 DEF ChainType
  <2> HIDE DEF again
  <2>4. again.at = "prev" => /\ again.out # NoId /\ t.gen <= generation[again.out]
                             /\ t.hyd.at = "read" => t.hyd.pin = again.out
    BY <1>0, <2>2, <2>3 DEF Base, Fenced, Draft, Shape
  <2>5. again.at \in {"get", "prev"} /\ (again.at = "get" => again.out = NoId)
    BY <2>2, <2>3
  <2>6. WindowOK([Detached(t) EXCEPT !.main = again], generation)
    BY <1>0, <1>1, <1>2, <2>2, <2>3, <2>4, <2>5, Starting
  <2> QED BY <2>1, <2>6, Became
<1>4. CASE ~Visible(m.removing)
  <2> DEFINE n == [m EXCEPT !.tries = i]
             u == With(t, t.unsaved, n)
  <2>1. Become(w, Ended([t EXCEPT !.main.tries = m.tries - 1], FALSE))
    BY <1>4 DEF Recover
  <2> HIDE DEF i
  <2>2. [t EXCEPT !.main.tries = i] = u
    BY <1>0 DEF With, TabType
  <2>3. /\ n \in ChainType /\ n.at = "recover" /\ n.removing = m.removing
        /\ n.wasDirty = m.wasDirty
    BY <1>0, <1>1 DEF ChainType
  <2>4. u.main = n /\ u.unsaved = t.unsaved
    BY <1>0, WithIs
  <2> HIDE DEF n
  <2>5. Copied(u, generation)
    BY <2>3, <2>4 DEF Copied
  <2>6. n # Idle
    BY <2>3, IdleAt
  <2>7. Chained(u)
    BY <1>2, <2>3, <2>4, <2>6 DEF Chained
  <2>8. WindowOK(u, generation)
    BY <1>0, <1>1, <2>3, <2>5, <2>7, Chaining
  <2> HIDE DEF u
  <2>9. Become(w, Ended(u, FALSE))
    BY <2>1, <2>2 DEF i
  <2> QED BY <1>2, <2>3, <2>4, <2>6, <2>8, <2>9, EndingTwice DEF WindowOK
<1> QED BY <1>3, <1>4

(* What a removal keeps for the undo. *)
LEMMA DeletionIs ==
    ASSUME StoreOK, NEW id \in Ids, Store!WriteDeleted(id)
    PROVE  Store!Deletion(id) \in Store!Deletions
<1>1. scenario[id] \in Store!Records /\ scenario[id].generation = generation[id]
  BY DEF StoreOK, Store!WriteDeleted, Stored, Store!Stored
<1>2. /\ generation[id] \in 0..MaxGeneration /\ MaxGeneration \in Nat
      /\ Store!DeletionGeneration(id) = generation[id] + 1
      /\ Store!DeletionGeneration(id) <= MaxGeneration
  BY <1>1, TabsAssumption
     DEF StoreOK, Store!WriteDeleted, Store!DeletionGeneration, Store!Larger
<1>3. Store!DeletionGeneration(id) \in 0..MaxGeneration
  BY <1>2
<1>4. Store!Attached(id) \in SUBSET {}
  BY DEF Store!Attached
<1> QED BY <1>1, <1>3, <1>4 DEF Store!Deletion, Store!Deletions, Store!Generations

LEMMA DeleteStep ==
    ASSUME IInv, NEW w \in Windows, Delete(w)
    PROVE  Becomes(w)
<1> DEFINE t == tab[w]
           m == t.main
<1>0. /\ t \in TabType /\ Base(t, generation) /\ Effect(t) /\ Chained(t) /\ StoreOK
      /\ WindowOK(t, generation)
      /\ m \in ChainType /\ m # Idle /\ m.at = "delete"
      /\ t.unsaved \in BOOLEAN
      /\ t.hyd.at # "create" /\ (t.hyd.at = "read" => t.hyd.pin # NoId)
  BY InChain DEF Delete, MainStages
<1>1. m.removing \in Ids /\ m.removing # NoId /\ "recover" \in MainStages /\ 1 \in Int
  BY <1>0 DEF Base, Shape, ChainType, MainStages
<1>2. (t.unsaved => m.wasDirty)
  BY <1>0 DEF Chained
<1>3. CASE /\ Store!WriteDeleted(m.removing)
           /\ Become(w, Done([t EXCEPT !.undo = Store!Deletion(m.removing)]))
  <2> DEFINE d == Store!Deletion(m.removing)
  <2>1. d \in Store!Deletions
    BY <1>0, <1>1, <1>3, DeletionIs
  <2> HIDE DEF d
  <2>2. WindowOK([t EXCEPT !.undo = d], generation)
    BY <1>0, <2>1, Forgetting
  <2>3. WindowOK(Done([t EXCEPT !.undo = d]), generation)
    BY <2>2, Finishing DEF WindowOK
  <2> QED BY <1>3, <2>3, Became DEF d
<1>4. CASE Become(w, Done(t))
  BY <1>0, <1>4, Finishing, Became
<1>5. CASE Become(w, Goes([t EXCEPT !.main.tries = 1], "recover"))
  <2> DEFINE k == [m EXCEPT !.tries = 1]
             n == [k EXCEPT !.at = "recover"]
             u == With(t, t.unsaved, n)
  <2>1. [t EXCEPT !.main.tries = 1] = With(t, t.unsaved, k)
    BY <1>0 DEF With, TabType
  <2>2. /\ k \in ChainType /\ k.copy = m.copy /\ k.removing = m.removing
        /\ k.wasDirty = m.wasDirty
    BY <1>0, <1>1 DEF ChainType
  <2> HIDE DEF k
  <2>3. /\ n \in ChainType /\ n.at = "recover" /\ n.removing = m.removing
        /\ n.wasDirty = m.wasDirty
    BY <1>1, <2>2 DEF ChainType
  <2>4. Goes(With(t, t.unsaved, k), "recover") = u
    BY <1>0, WithIs
  <2>5. u.main = n /\ u.unsaved = t.unsaved
    BY <1>0, WithIs
  <2> HIDE DEF n
  <2>6. Copied(u, generation)
    BY <2>3, <2>5 DEF Copied
  <2>7. n # Idle
    BY <2>3, IdleAt
  <2>8. Chained(u)
    BY <1>2, <2>3, <2>5, <2>7 DEF Chained
  <2>9. WindowOK(u, generation)
    BY <1>0, <1>1, <2>3, <2>6, <2>8, Chaining
  <2> HIDE DEF u
  <2> QED BY <1>5, <2>1, <2>4, <2>9, Became
<1> QED BY <1>3, <1>4, <1>5 DEF Delete

-----------------------------------------------------------------------------
(* The store *)

(* The store stays as it should be, and no generation goes back. *)
Advanced ==
    /\ StoreOK' /\ generation \in Generations /\ generation' \in Generations
    /\ \A id \in Ids : generation[id] <= generation'[id]

LEMMA Resting ==
    ASSUME StoreOK,
           UNCHANGED <<scenario, generation, tombstone, epoch>>,
           active' \in Ids \cup {NoId}
    PROVE  Advanced
<1>1. generation \in Generations /\ \A id \in Ids : generation[id] <= generation[id]
  BY TabsAssumption DEF StoreOK, Generations
<1> QED BY <1>1 DEF Advanced, StoreOK, Stored, Store!Stored

LEMMA IsRecord ==
    ASSUME NEW gen \in 0..MaxGeneration, NEW dirty \in BOOLEAN, NEW of \in Nat
    PROVE  /\ [generation |-> gen, title |-> 0, session |-> NoSession, dirty |-> dirty,
               of |-> of] \in Store!Records
           /\ Nothing \notin Store!Records
<1>1. 0 \in 0..0
  OBVIOUS
<1> QED BY <1>1, TabsAssumption DEF Store!Records, Store!Generations, Store!Titles

(* The writes of a save, for a record of the generation in force. *)
LEMMA Writes ==
    ASSUME StoreOK, NEW id \in Ids, NEW r \in Store!Records, NEW P, NEW current,
           NEW advance \in BOOLEAN,
           Store!WriteSaved(id, r, P, current, advance),
           current \in Ids \cup {NoId}, tombstone[id] = 0,
           r.generation = Store!Next1(generation[id], advance)
    PROVE  Advanced
<1> DEFINE recs == [scenario EXCEPT ![id] = r]
<1>1. /\ MaxGeneration \in Nat /\ Nothing \notin Store!Records
      /\ r.generation \in 0..MaxGeneration /\ r # Nothing
  BY TabsAssumption DEF Store!Records, Store!Generations
<1>2. /\ P \in SUBSET Ids /\ id \notin P
      /\ \A p \in P : recs[p] # Nothing
  BY DEF Store!WriteSaved, Store!PrunedSets, Store!Prunable
<1>3. ASSUME NEW p \in P
      PROVE  /\ scenario[p].generation = generation[p] /\ recs[p] = scenario[p]
             /\ generation[p] + 1 \in 0..MaxGeneration /\ generation[p] \in Int
  <2>1. recs[p] = scenario[p] /\ scenario[p] # Nothing /\ p \in Ids
    BY <1>2, <1>3 DEF StoreOK
  <2>2. scenario[p].generation = generation[p] /\ generation[p] \in 0..MaxGeneration
    BY <2>1 DEF StoreOK, Stored, Store!Stored
  <2>3. recs[p].generation < MaxGeneration
    BY <1>3 DEF Store!WriteSaved
  <2> QED BY <1>1, <2>1, <2>2, <2>3
<1>4. ASSUME NEW i \in Ids
      PROVE  /\ i \in P => /\ scenario'[i] = Nothing
                           /\ generation'[i] = generation[i] + 1
                           /\ tombstone'[i] = generation[i] + 1
                           /\ epoch'[i] = epoch[i] + 1
             /\ i = id => /\ scenario'[i] = r
                          /\ generation'[i] = Store!Next1(generation[i], advance)
                          /\ tombstone'[i] = 0
                          /\ epoch'[i] = Store!Next1(epoch[i], advance)
             /\ i \notin P /\ i # id => /\ scenario'[i] = scenario[i]
                                        /\ generation'[i] = generation[i]
                                        /\ tombstone'[i] = tombstone[i]
                                        /\ epoch'[i] = epoch[i]
  BY <1>2, <1>3 DEF StoreOK, Store!WriteSaved, Store!Next1
<1>5. \A i \in Ids : generation[i] \in 0..MaxGeneration /\ epoch[i] = generation[i]
  BY DEF StoreOK
<1>6. /\ DOMAIN scenario' = Ids /\ DOMAIN generation' = Ids /\ DOMAIN tombstone' = Ids
      /\ DOMAIN epoch' = Ids /\ active' = current
      /\ scenario' = [i \in Ids |-> scenario'[i]]
      /\ generation' = [i \in Ids |-> generation'[i]]
      /\ tombstone' = [i \in Ids |-> tombstone'[i]]
      /\ epoch' = [i \in Ids |-> epoch'[i]]
  BY DEF Store!WriteSaved
<1>7. /\ \A i \in Ids : scenario'[i] \in Store!Records \cup {Nothing}
      /\ \A i \in Ids : tombstone'[i] \in 0..MaxGeneration
  BY <1>1, <1>3, <1>4 DEF StoreOK
<1>8. \A i \in Ids : /\ generation'[i] \in 0..MaxGeneration
                     /\ generation[i] <= generation'[i]
                     /\ epoch'[i] = generation'[i]
  BY <1>1, <1>3, <1>4, <1>5 DEF Store!Next1
<1>9. \A i \in Ids :
        /\ scenario'[i] # Nothing =>
               tombstone'[i] = 0 /\ scenario'[i].generation = generation'[i]
        /\ tombstone'[i] # 0 => tombstone'[i] = generation'[i]
  BY <1>4 DEF StoreOK, Stored, Store!Stored
<1>10. StoreOK'
  <2>1. scenario' \in [Ids -> Store!Records \cup {Nothing}]
    BY <1>6, <1>7
  <2>2. generation' \in [Ids -> 0..MaxGeneration] /\ tombstone' \in [Ids -> 0..MaxGeneration]
    BY <1>6, <1>7, <1>8
  <2>3. epoch' = generation'
    BY <1>6, <1>8
  <2> QED BY <1>6, <1>9, <2>1, <2>2, <2>3 DEF StoreOK, Stored, Store!Stored
<1> QED BY <1>8, <1>10 DEF Advanced, StoreOK, Generations

LEMMA Published ==
    ASSUME notices \in [Windows -> SUBSET Ids], NEW ids \in SUBSET Ids, Publish(ids)
    PROVE  notices' \in [Windows -> SUBSET Ids]
  BY DEF Publish

(* A save of a copy that is not ahead of the store. *)
LEMMA Saving ==
    ASSUME StoreOK, NEW id \in Ids, NEW gen \in 0..MaxGeneration, NEW of \in Nat,
           NEW dirty \in BOOLEAN, NEW advance \in BOOLEAN,
           gen <= generation[id], Accepts(id, gen), Saves(id, gen, of, dirty, advance),
           notices \in [Windows -> SUBSET Ids]
    PROVE  Advanced /\ notices' \in [Windows -> SUBSET Ids]
<1> DEFINE c == [id |-> id, generation |-> gen, title |-> 0, session |-> NoSession,
                 of |-> of]
           r == Store!SavedRecord(c, NoSession, dirty, advance)
           n == Store!Next1(gen, advance)
<1>1. PICK P \in SUBSET Ids :
          Store!WriteSaved(id, r, P, active, advance) /\ Publish(P)
  BY DEF Saves
<1>2. /\ gen = generation[id] /\ tombstone[id] = 0
      /\ generation[id] \in 0..MaxGeneration /\ MaxGeneration \in Nat
  BY TabsAssumption DEF StoreOK, Accepts, Store!Accepts
<1>3. Store!Larger(gen, generation[id]) = gen /\ n <= MaxGeneration
  BY <1>2 DEF Saves, Store!Larger
<1>4. n \in 0..MaxGeneration
  BY <1>2, <1>3 DEF Store!Next1
<1>5. Store!MergedTitle(c) = 0
  <2>1. CASE Store!Stored(id)
    <3>1. scenario[id].title \in 0..0
      BY <2>1 DEF StoreOK, Store!Stored, Store!Records, Store!Titles
    <3> QED BY <3>1 DEF Store!MergedTitle, Store!Larger
  <2>2. CASE ~Store!Stored(id)
    BY <2>2 DEF Store!MergedTitle
  <2> QED BY <2>1, <2>2
<1>6. Store!Next1(of, advance) \in Nat
  BY DEF Store!Next1
<1>7. r = [generation |-> n, title |-> 0, session |-> NoSession, dirty |-> dirty,
           of |-> Store!Next1(of, advance)]
  BY <1>3, <1>5 DEF Store!SavedRecord
<1>8. n = Store!Next1(generation[id], advance)
  BY <1>2
<1> HIDE DEF n
<1>9. r \in Store!Records /\ r.generation = n
  BY <1>4, <1>6, <1>7, IsRecord
<1> HIDE DEF r
<1>10. active \in Ids \cup {NoId}
  BY DEF StoreOK
<1> QED BY <1>1, <1>2, <1>8, <1>9, <1>10, Writes, Published

(* The step of a removal, and of an undo. *)
LEMMA Deleting ==
    ASSUME StoreOK, NEW id \in Ids, Store!WriteDeleted(id)
    PROVE  Advanced
<1> DEFINE n == Store!DeletionGeneration(id)
<1>1. /\ MaxGeneration \in Nat /\ id # NoId
      /\ generation[id] \in 0..MaxGeneration /\ epoch[id] = generation[id]
      /\ tombstone[id] = 0 /\ scenario[id].generation = generation[id]
  BY TabsAssumption DEF StoreOK, Stored, Store!Stored, Store!WriteDeleted
<1>2. n = generation[id] + 1 /\ n \in 0..MaxGeneration /\ n # 0
  <2>1. n = generation[id] + 1 /\ n <= MaxGeneration
    BY <1>1 DEF Store!DeletionGeneration, Store!Larger, Store!WriteDeleted
  <2> QED BY <1>1, <2>1
<1>3. /\ scenario' = [scenario EXCEPT ![id] = Nothing]
      /\ generation' = [generation EXCEPT ![id] = n]
      /\ tombstone' = [tombstone EXCEPT ![id] = n]
      /\ epoch' = [epoch EXCEPT ![id] = n]
      /\ active' = Store!ActiveWithout(id)
  BY <1>1, <1>2 DEF Store!WriteDeleted
<1> HIDE DEF n
<1>4. /\ scenario' \in [Ids -> Store!Records \cup {Nothing}]
      /\ generation' \in [Ids -> 0..MaxGeneration] /\ tombstone' \in [Ids -> 0..MaxGeneration]
      /\ epoch' = generation'
  BY <1>2, <1>3 DEF StoreOK
<1>5. active' \in Ids \cup {NoId}
  BY <1>3 DEF StoreOK, Store!ActiveWithout
<1>6. ASSUME NEW i \in Ids
      PROVE  /\ scenario'[i] # Nothing =>
                    tombstone'[i] = 0 /\ scenario'[i].generation = generation'[i]
             /\ tombstone'[i] # 0 => tombstone'[i] = generation'[i]
             /\ generation[i] <= generation'[i]
  <2>1. CASE i = id
    BY <1>1, <1>2, <1>3, <2>1 DEF StoreOK
  <2>2. CASE i # id
    <3>1. generation[i] \in 0..MaxGeneration
      BY DEF StoreOK
    <3> QED BY <1>1, <1>3, <2>2, <3>1 DEF StoreOK, Stored, Store!Stored
  <2> QED BY <2>1, <2>2
<1> QED BY <1>4, <1>5, <1>6 DEF Advanced, StoreOK, Generations, Stored, Store!Stored

LEMMA Restoring ==
    ASSUME StoreOK, NEW d \in Store!Deletions, Store!WriteRestored(d)
    PROVE  Advanced
<1> DEFINE id == d.id
           n == generation[id] + 1
           o == d.record.of + 2
           r == [d.record EXCEPT !.generation = n, !.of = o]
<1>1. /\ MaxGeneration \in Nat /\ id \in Ids
      /\ d.record \in Store!Records
      /\ Nothing \notin Store!Records
  BY TabsAssumption DEF Store!Deletions
<1>2. generation[id] \in 0..MaxGeneration /\ epoch[id] = generation[id] /\ n <= MaxGeneration
  <2>1. r.generation = n
    BY <1>1 DEF Store!Records
  <2> QED BY <1>1, <2>1 DEF StoreOK, Store!WriteRestored
<1>3. n \in 0..MaxGeneration /\ generation[id] <= n
  BY <1>1, <1>2
<1>4. o \in Nat
  BY <1>1 DEF Store!Records
<1>5. /\ scenario' = [scenario EXCEPT ![id] = r]
      /\ generation' = [generation EXCEPT ![id] = n]
      /\ tombstone' = [tombstone EXCEPT ![id] = 0]
      /\ epoch' = [epoch EXCEPT ![id] = n]
      /\ active' = active
  <2>1. r.generation = n
    BY <1>1 DEF Store!Records
  <2> QED BY <1>2, <2>1 DEF Store!WriteRestored
<1> HIDE DEF n, o
<1>6. r \in Store!Records /\ r.generation = n /\ r # Nothing
  BY <1>1, <1>3, <1>4 DEF Store!Records, Store!Generations
<1> HIDE DEF r, id
<1>7. 0 \in 0..MaxGeneration
  BY <1>1
<1>8. /\ scenario' \in [Ids -> Store!Records \cup {Nothing}]
      /\ generation' \in [Ids -> 0..MaxGeneration] /\ tombstone' \in [Ids -> 0..MaxGeneration]
      /\ epoch' = generation' /\ active' \in Ids \cup {NoId}
  BY <1>3, <1>5, <1>6, <1>7 DEF StoreOK
<1>9. ASSUME NEW i \in Ids
      PROVE  /\ scenario'[i] # Nothing =>
                    tombstone'[i] = 0 /\ scenario'[i].generation = generation'[i]
             /\ tombstone'[i] # 0 => tombstone'[i] = generation'[i]
             /\ generation[i] <= generation'[i]
  <2>1. CASE i = id
    BY <1>3, <1>5, <1>6, <2>1 DEF StoreOK
  <2>2. CASE i # id
    <3>1. generation[i] \in 0..MaxGeneration
      BY DEF StoreOK
    <3> QED BY <1>5, <2>2, <3>1 DEF StoreOK, Stored, Store!Stored
  <2> QED BY <2>1, <2>2
<1> QED BY <1>8, <1>9 DEF Advanced, StoreOK, Generations, Stored, Store!Stored

LEMMA Creating ==
    ASSUME IInv, NEW w \in Windows, HydCreate(w)
    PROVE  Advanced /\ notices' \in [Windows -> SUBSET Ids]
<1> DEFINE r == [generation |-> 0, title |-> 0, session |-> NoSession, dirty |-> TRUE,
                 of |-> 0]
<1>1. PICK id \in Ids, P \in SUBSET Ids :
          Unused(id) /\ Store!WriteSaved(id, r, P, id, FALSE) /\ Publish(P)
  BY DEF HydCreate
<1>2. PICK advance \in BOOLEAN : advance = FALSE
  OBVIOUS
<1>3. StoreOK /\ notices \in [Windows -> SUBSET Ids]
  BY DEF IInv
<1>4. generation[id] = 0 /\ tombstone[id] = 0
  BY <1>1 DEF Unused, Store!Unused
<1>5. 0 \in 0..MaxGeneration
  BY TabsAssumption
<1>6. r \in Store!Records
  <2>1. PICK dirty \in BOOLEAN : dirty = TRUE
    OBVIOUS
  <2> QED BY <1>5, <2>1, IsRecord
<1>7. r.generation = Store!Next1(generation[id], advance)
  BY <1>2, <1>4 DEF Store!Next1
<1> HIDE DEF r
<1>8. Store!WriteSaved(id, r, P, id, advance)
  BY <1>1, <1>2
<1>9. Advanced
  BY <1>3, <1>4, <1>6, <1>7, <1>8, Writes
<1> QED BY <1>1, <1>3, <1>9, Published

(* The saves of a window are of copies that are not ahead of the store. *)
LEMMA SaveSteps ==
    ASSUME IInv, NEW w \in Windows,
           AutoWrite(w) \/ HydSave(w) \/ Out(w) \/ Put(w) \/ Keep(w)
    PROVE  Advanced /\ notices' \in [Windows -> SUBSET Ids]
<1> DEFINE t == tab[w]
           m == t.main
<1>0. /\ StoreOK /\ t \in TabType /\ Base(t, generation)
      /\ notices \in [Windows -> SUBSET Ids] /\ active \in Ids \cup {NoId}
      /\ Writing(t, generation) /\ Copied(t, generation) /\ Shape(t)
      /\ t.gen \in 0..MaxGeneration /\ t.of \in Nat
  BY DEF IInv, WindowOK, Base, Fenced, StoreOK, TabType
<1>1. PICK f \in BOOLEAN, e \in BOOLEAN : f = FALSE /\ e = TRUE
  OBVIOUS
<1>2. ASSUME UNCHANGED <<storeVars, notices>>
      PROVE  Advanced /\ notices' \in [Windows -> SUBSET Ids]
  BY <1>0, <1>2, Resting DEF storeVars
<1>3. CASE AutoWrite(w)
  <2>1. t.auto.id \in Ids /\ t.auto.dirty \in BOOLEAN /\ t.gen <= generation[t.auto.id]
    BY <1>0, <1>3, AutoIs DEF AutoWrite, TabType, Writing
  <2>2. CASE /\ Accepts(t.auto.id, t.gen)
             /\ Saves(t.auto.id, t.gen, t.of, t.auto.dirty, FALSE)
    <3>1. Saves(t.auto.id, t.gen, t.of, t.auto.dirty, f)
      BY <1>1, <2>2
    <3> QED BY <1>0, <2>1, <2>2, <3>1, Saving
  <2> QED BY <1>2, <1>3, <2>2 DEF AutoWrite
<1>4. CASE HydSave(w)
  <2>1. t.hyd.id \in Ids /\ t.hyd.dirty \in BOOLEAN /\ t.gen <= generation[t.hyd.id]
    BY <1>0, <1>4, HydIs DEF HydSave, TabType, Writing
  <2>2. CASE /\ Accepts(t.hyd.id, t.gen)
             /\ Saves(t.hyd.id, t.gen, t.of, t.hyd.dirty, FALSE)
    <3>1. Saves(t.hyd.id, t.gen, t.of, t.hyd.dirty, f)
      BY <1>1, <2>2
    <3> QED BY <1>0, <2>1, <2>2, <3>1, Saving
  <2> QED BY <1>2, <1>4, <2>2 DEF HydSave
<1>5. CASE Out(w)
  <2>1. m \in ChainType /\ m.at = "out"
    BY <1>5, InChain DEF Out, MainStages
  <2>2. /\ m.out \in Ids /\ m.of \in Nat /\ m.dirty \in BOOLEAN
        /\ t.gen <= generation[m.out]
    BY <1>0, <2>1 DEF Shape, Writing, ChainType
  <2>3. CASE Accepts(m.out, t.gen) /\ Saves(m.out, t.gen, m.of, m.dirty, TRUE)
    <3>1. Saves(m.out, t.gen, m.of, m.dirty, e)
      BY <1>1, <2>3
    <3> QED BY <1>0, <2>2, <2>3, <3>1, Saving
  <2> QED BY <1>2, <1>5, <2>3 DEF Out
<1>6. CASE Put(w)
  <2>1. m \in ChainType /\ m.at = "put"
    BY <1>6, InChain DEF Put, MainStages
  <2> DEFINE c == m.copy
  <2>2. /\ m.target \in Ids /\ c.gen \in 0..MaxGeneration /\ c.of \in Nat
        /\ c.dirty \in BOOLEAN /\ c.gen <= generation[m.target]
    BY <1>0, <2>1 DEF Copied, ChainType, CopyType
  <2>3. CASE Accepts(m.target, c.gen) /\ Saves(m.target, c.gen, c.of, c.dirty, FALSE)
    <3>1. Saves(m.target, c.gen, c.of, c.dirty, f)
      BY <1>1, <2>3
    <3> QED BY <1>0, <2>2, <2>3, <3>1, Saving
  <2> QED BY <1>2, <1>6, <2>3 DEF Put
<1>7. CASE Keep(w)
  <2>1. m \in ChainType /\ m.at = "keep"
    BY <1>7, InChain DEF Keep, MainStages
  <2>2. /\ m.target \in Ids /\ m.of \in Nat /\ m.dirty \in BOOLEAN
        /\ t.gen <= generation[m.target]
    BY <1>0, <2>1 DEF Writing, ChainType
  <2>3. CASE Accepts(m.target, t.gen) /\ Saves(m.target, t.gen, m.of, m.dirty, TRUE)
    <3>1. Saves(m.target, t.gen, m.of, m.dirty, e)
      BY <1>1, <2>3
    <3> QED BY <1>0, <2>2, <2>3, <3>1, Saving
  <2> QED BY <1>2, <1>7, <2>3 DEF Keep
<1> QED BY <1>3, <1>4, <1>5, <1>6, <1>7

-----------------------------------------------------------------------------
(* The invariant *)

LEMMA ActsIs ==
    ASSUME acts \in 0..MaxActs, Acting \/ UNCHANGED acts
    PROVE  acts' \in 0..MaxActs
<1>1. MaxActs \in Nat
  BY TabsAssumption
<1> QED BY <1>1 DEF Acting

(* What a step of the window w does to itself, to the store and to the rest. *)
Stepped(w) ==
    /\ Becomes(w) /\ Advanced
    /\ notices' \in [Windows -> SUBSET Ids] /\ acts' \in 0..MaxActs

LEMMA Steps ==
    ASSUME IInv, NEW w \in Windows,
           \/ Autosave(w) \/ Hydration(w) \/ Chain(w) \/ Command(w)
           \/ \E id \in Ids : Deliver(w, id)
    PROVE  Stepped(w)
<1>0. /\ StoreOK /\ acts \in 0..MaxActs /\ active \in Ids \cup {NoId}
      /\ notices \in [Windows -> SUBSET Ids]
  BY DEF IInv, StoreOK
<1>1. ASSUME Becomes(w), UNCHANGED storeVars, notices' \in [Windows -> SUBSET Ids],
             Acting \/ UNCHANGED acts
      PROVE  Stepped(w)
  <2>1. Advanced
    BY <1>0, <1>1, Resting DEF storeVars
  <2> QED BY <1>0, <1>1, <2>1, ActsIs DEF Stepped
<1>2. ASSUME Becomes(w), Advanced /\ notices' \in [Windows -> SUBSET Ids], UNCHANGED acts
      PROVE  Stepped(w)
  BY <1>0, <1>2, ActsIs DEF Stepped
<1>3. CASE Autosave(w)
  <2>1. CASE AutoRead(w)
    BY <1>0, <1>1, <2>1, AutoReadStep DEF AutoRead
  <2>2. CASE AutoWrite(w)
    <3>1. UNCHANGED acts
      BY <2>2 DEF AutoWrite
    <3> QED BY <1>2, <2>2, <3>1, AutoWriteStep, SaveSteps
  <2>3. CASE AutoRecheck(w)
    BY <1>0, <1>1, <2>3, AutoRecheckStep DEF AutoRecheck
  <2> QED BY <1>3, <2>1, <2>2, <2>3 DEF Autosave
<1>4. CASE Hydration(w)
  <2>1. CASE HydRead(w)
    BY <1>0, <1>1, <2>1, HydReadStep DEF HydRead
  <2>2. CASE HydCreate(w)
    <3>1. UNCHANGED acts
      BY <2>2 DEF HydCreate
    <3> QED BY <1>2, <2>2, <3>1, HydCreateStep, Creating
  <2>3. CASE HydNet(w)
    BY <1>0, <1>1, <2>3, HydNetStep DEF HydNet
  <2>4. CASE HydSave(w)
    <3>1. UNCHANGED acts
      BY <2>4 DEF HydSave
    <3> QED BY <1>2, <2>4, <3>1, HydSaveStep, SaveSteps
  <2>5. CASE HydRecheck(w)
    BY <1>0, <1>1, <2>5, HydRecheckStep DEF HydRecheck
  <2> QED BY <1>4, <2>1, <2>2, <2>3, <2>4, <2>5 DEF Hydration
<1>5. CASE Chain(w)
  <2>1. CASE Prev(w)
    BY <1>0, <1>1, <2>1, PrevStep DEF Prev
  <2>2. CASE Out(w)
    <3>1. UNCHANGED acts
      BY <2>2 DEF Out
    <3> QED BY <1>2, <2>2, <3>1, OutStep, SaveSteps
  <2>3. CASE OutRecheck(w)
    BY <1>0, <1>1, <2>3, OutRecheckStep DEF OutRecheck
  <2>4. CASE Get(w)
    BY <1>0, <1>1, <2>4, GetStep DEF Get
  <2>5. CASE Put(w)
    <3>1. UNCHANGED acts
      BY <2>5 DEF Put
    <3> QED BY <1>2, <2>5, <3>1, PutStep, SaveSteps
  <2>6. CASE Point(w)
    <3>1. tab[w].main \in ChainType
      BY <2>6, InChain DEF Point, MainStages
    <3>2. active' \in Ids \cup {NoId}
      BY <1>0, <2>6, <3>1 DEF Point, ChainType
    <3>3. UNCHANGED <<scenario, generation, tombstone, epoch>> /\ UNCHANGED <<notices, acts>>
      BY <2>6 DEF Point
    <3>4. Advanced
      BY <1>0, <3>2, <3>3, Resting
    <3> QED BY <1>0, <1>2, <2>6, <3>3, <3>4, PointStep
  <2>7. CASE Catch(w)
    BY <1>0, <1>1, <2>7, CatchStep DEF Catch
  <2>8. CASE Back(w)
    <3>1. tab[w].main \in ChainType
      BY <2>8, InChain DEF Back, MainStages
    <3>2. active' \in Ids \cup {NoId}
      BY <1>0, <2>8, <3>1 DEF Back, ChainType
    <3>3. UNCHANGED <<scenario, generation, tombstone, epoch>> /\ UNCHANGED <<notices, acts>>
      BY <2>8 DEF Back
    <3>4. Advanced
      BY <1>0, <3>2, <3>3, Resting
    <3> QED BY <1>0, <1>2, <2>8, <3>3, <3>4, BackStep
  <2>9. CASE Keep(w)
    <3>1. UNCHANGED acts
      BY <2>9 DEF Keep
    <3> QED BY <1>2, <2>9, <3>1, KeepStep, SaveSteps
  <2>10. CASE Switch(w)
    BY <1>0, <1>1, <2>10, SwitchStep DEF Switch
  <2>11. CASE Delete(w)
    <3>1. Becomes(w)
      BY <2>11, DeleteStep
    <3>2. tab[w].main.removing \in Ids
      <4>1. tab[w].main \in ChainType /\ tab[w].main.removing # NoId
        BY <2>11, InChain DEF Delete, MainStages, Base, Shape
      <4> QED BY <4>1 DEF ChainType
    <3>3. CASE Store!WriteDeleted(tab[w].main.removing) /\ Publish({tab[w].main.removing})
      <4>1. UNCHANGED acts
        BY <2>11 DEF Delete
      <4>2. Advanced
        BY <1>0, <3>2, <3>3, Deleting
      <4>3. notices' \in [Windows -> SUBSET Ids]
        BY <1>0, <3>2, <3>3, Published
      <4> QED BY <1>2, <3>1, <4>1, <4>2, <4>3
    <3>4. CASE UNCHANGED <<storeVars, notices>>
      <4>1. UNCHANGED acts
        BY <2>11 DEF Delete
      <4> QED BY <1>0, <1>1, <3>1, <3>4, <4>1
    <3> QED BY <2>11, <3>3, <3>4 DEF Delete
  <2>12. CASE Recover(w)
    BY <1>0, <1>1, <2>12, RecoverStep DEF Recover
  <2> QED BY <1>5, <2>1, <2>2, <2>3, <2>4, <2>5, <2>6, <2>7, <2>8, <2>9, <2>10, <2>11, <2>12
          DEF Chain
<1>6. CASE Command(w)
  <2>1. CASE Edit(w)
    BY <1>0, <1>1, <2>1, EditStep DEF Edit
  <2>2. CASE PersistSession(w)
    BY <1>0, <1>1, <2>2, PersistSessionStep DEF PersistSession
  <2>3. CASE Reconnect(w)
    BY <1>0, <1>1, <2>3, ReconnectStep DEF Reconnect
  <2>4. CASE Reload(w)
    <3>1. /\ notices' = [notices EXCEPT ![w] = {}] /\ UNCHANGED storeVars /\ Acting
      BY <2>4 DEF Reload
    <3> QED BY <1>0, <1>1, <2>4, <3>1, ReloadStep
  <2>5. CASE OpenSame(w)
    BY <1>0, <1>1, <2>5, OpenSameStep DEF OpenSame
  <2>6. CASE Undo(w)
    <3>1. Becomes(w)
      BY <2>6, UndoStep
    <3>2. UNCHANGED <<notices, acts>>
      BY <2>6 DEF Undo
    <3>3. CASE Store!WriteRestored(tab[w].undo)
      <4>1. tab[w].undo \in Store!Deletions
        BY <2>6 DEF Undo, IInv, TabType
      <4>2. Advanced
        BY <1>0, <3>3, <4>1, Restoring
      <4> QED BY <1>0, <1>2, <3>1, <3>2, <4>2
    <3>4. CASE UNCHANGED storeVars
      BY <1>0, <1>1, <3>1, <3>2, <3>4
    <3> QED BY <2>6, <3>3, <3>4 DEF Undo
  <2>7. CASE UndoGone(w)
    BY <1>0, <1>1, <2>7, UndoStep DEF UndoGone
  <2>8. ASSUME NEW id \in Ids, Open(w, id) \/ Create(w, id)
        PROVE  Stepped(w)
    <3>1. UNCHANGED <<storeVars, notices>> /\ Acting
      BY <2>8 DEF Open, Create
    <3> QED BY <1>0, <1>1, <2>8, <3>1, OpenStep
  <2>9. ASSUME NEW id \in Ids, Remove(w, id)
        PROVE  Stepped(w)
    BY <1>0, <1>1, <2>9, RemoveStep DEF Remove
  <2> QED BY <1>6, <2>1, <2>2, <2>3, <2>4, <2>5, <2>6, <2>7, <2>8, <2>9 DEF Command
<1>7. ASSUME NEW id \in Ids, Deliver(w, id)
      PROVE  Stepped(w)
  <2>1. UNCHANGED <<storeVars, acts>>
    BY <1>7 DEF Deliver
  <2>2. notices' \in [Windows -> SUBSET Ids]
    BY <1>0, <1>7 DEF Deliver
  <2> QED BY <1>1, <1>7, <2>1, <2>2, DeliverStep
<1> QED BY <1>3, <1>4, <1>5, <1>6, <1>7

LEMMA SteppedIInv ==
    ASSUME IInv, NEW w \in Windows, Stepped(w)
    PROVE  IInv'
<1>1. PICK u \in TabType : tab' = [tab EXCEPT ![w] = u] /\ WindowOK(u, generation)
  BY DEF Stepped, Becomes
<1>2. tab' = [tab EXCEPT ![w] = u] /\ tab' \in [Windows -> TabType]
  BY <1>1 DEF IInv
<1>3. Advanced
  BY DEF Stepped
<1>4. ASSUME NEW x \in Windows
      PROVE  WindowOK(tab'[x], generation')
  <2>1. WindowOK(tab'[x], generation)
    BY <1>1, <1>2 DEF IInv
  <2> DEFINE g == generation
             h == generation'
             t == tab'[x]
  <2>2. /\ g \in Generations /\ h \in Generations /\ \A id \in Ids : g[id] <= h[id]
        /\ WindowOK(t, g)
    BY <1>3, <2>1 DEF Advanced
  <2> HIDE DEF g, h, t
  <2>3. WindowOK(t, h)
    BY <2>2, Grown
  <2> QED BY <2>3 DEF h, t
<1> QED BY <1>2, <1>3, <1>4 DEF IInv, Advanced, Stepped

LEMMA InitIInv == Init => IInv
<1> SUFFICES ASSUME Init
             PROVE  IInv
  OBVIOUS
<1>0. /\ MaxGeneration \in Nat /\ MaxActs \in Nat /\ 0 \in 0..MaxGeneration /\ 0 \in Nat
      /\ First \in Ids /\ NoId \notin Ids
  BY TabsAssumption
<1> DEFINE r == [generation |-> 0, title |-> 0, session |-> NoSession, dirty |-> FALSE,
                 of |-> 0]
<1>1. r \in Store!Records /\ r # Nothing /\ r.generation = 0
  <2>1. PICK dirty \in BOOLEAN : dirty = FALSE
    OBVIOUS
  <2>2. r \in Store!Records /\ Nothing \notin Store!Records
    BY <1>0, <2>1, IsRecord
  <2> QED BY <2>2
<1>2. PICK stored \in SUBSET Ids :
          /\ First \in stored \/ stored = {}
          /\ scenario = [id \in Ids |-> IF id \in stored THEN r ELSE Nothing]
          /\ active = IF stored = {} THEN NoId ELSE First
          /\ tab = [w \in Windows |->
                 IF stored = {} THEN Blank
                 ELSE [Blank EXCEPT !.cur = First, !.hydrated = TRUE, !.hyd = Idle]]
          /\ acts = IF stored = {} THEN Cardinality(Windows) ELSE 0
  BY DEF Init
<1> HIDE DEF r
<1>3. /\ generation = [id \in Ids |-> 0] /\ tombstone = [id \in Ids |-> 0]
      /\ epoch = [id \in Ids |-> 0] /\ notices = [w \in Windows |-> {}]
  BY DEF Init
<1>4. StoreOK
  <2>1. scenario \in [Ids -> Store!Records \cup {Nothing}]
    BY <1>1, <1>2
  <2>2. /\ generation \in [Ids -> 0..MaxGeneration] /\ tombstone \in [Ids -> 0..MaxGeneration]
        /\ epoch = generation /\ active \in Ids \cup {NoId}
    BY <1>0, <1>2, <1>3
  <2>3. ASSUME NEW id \in Ids
        PROVE  /\ Stored(id) => tombstone[id] = 0 /\ scenario[id].generation = generation[id]
               /\ tombstone[id] # 0 => tombstone[id] = generation[id]
    BY <1>1, <1>2, <1>3 DEF Stored, Store!Stored
  <2> QED BY <2>1, <2>2, <2>3 DEF StoreOK
<1>5. acts \in 0..MaxActs
  <2>1. Cardinality(Windows) \in Nat /\ Cardinality(Windows) <= MaxActs
    BY TabsAssumption, FS_CardinalityType
  <2> QED BY <1>0, <1>2, <2>1
<1>6. WindowOK(Blank, generation)
  BY BlankOK
<1> DEFINE u == [Blank EXCEPT !.cur = First, !.hydrated = TRUE, !.hyd = Idle]
<1>7. WindowOK(u, generation)
  <2>1. Blank \in TabType
    BY <1>6 DEF WindowOK, Base
  <2>2. /\ u \in TabType /\ u.cur = First /\ u.hyd = Idle
        /\ u.gen = 0 /\ u.of = 0 /\ u.auto = Idle /\ u.main = Idle
        /\ ~u.unsaved /\ ~u.loose /\ u.lost = {} /\ ~u.due
    BY <1>0, <2>1, IdleAt DEF TabType, Blank
  <2> HIDE DEF u
  <2>3. generation[First] = 0
    BY <1>0, <1>3
  <2>4. Base(u, generation)
    BY <1>0, <2>2, <2>3, IdleAt
       DEF Base, Fenced, Draft, Writing, Copied, Shape, Marked, Edited, KeptByHyd
  <2>5. Effect(u) /\ Chained(u)
    BY <2>2, IdleAt DEF Effect, Watched, KeptByAuto, Edited, Chained
  <2> QED BY <2>4, <2>5 DEF WindowOK
<1> HIDE DEF u
<1>8. \A w \in Windows : WindowOK(tab[w], generation)
  BY <1>2, <1>6, <1>7 DEF u
<1>9. tab \in [Windows -> TabType]
  <2>1. Blank \in TabType /\ u \in TabType
    BY <1>6, <1>7 DEF WindowOK, Base
  <2> QED BY <1>2, <2>1 DEF u
<1> QED BY <1>3, <1>4, <1>5, <1>8, <1>9 DEF IInv

(* The invariant of the windows: the store agrees with itself, and every    *)
(* window is in a good state for the generations in force.                  *)
THEOREM Invariant == Spec => []IInv
<1>1. IInv /\ [Next]_vars => IInv'
  <2> SUFFICES ASSUME IInv, [Next]_vars
               PROVE  IInv'
    OBVIOUS
  <2>1. CASE Next
    BY <2>1, Steps, SteppedIInv DEF Next
  <2>2. CASE UNCHANGED vars
    BY <2>2 DEF vars, storeVars, IInv, StoreOK, Stored, Store!Stored
  <2> QED BY <2>1, <2>2
<1> QED BY <1>1, InitIInv, PTL DEF Spec

(* Every variable keeps its type, and an edited draft is marked dirty.      *)
THEOREM TypeCorrect == Spec => []TypeOK
<1>1. IInv => TypeOK
  <2> SUFFICES ASSUME IInv
               PROVE  TypeOK
    OBVIOUS
  <2>1. ASSUME NEW w \in Windows
        PROVE  LET t == tab[w] IN
               /\ DOMAIN t = DOMAIN Blank
               /\ t.cur \in Ids \cup {NoId} /\ t.gen \in 0..MaxGeneration /\ t.of \in Nat
               /\ {t.dirty, t.unsaved, t.loose, t.orphan, t.hydrated, t.due,
                   t.returned} \subseteq BOOLEAN
               /\ t.lost \subseteq {"settled", "loose", "refused", "closed"}
               /\ t.auto = Idle \/ t.auto.at \in AutoStages
               /\ t.hyd = Idle \/ t.hyd.at \in HydStages
               /\ t.main = Idle \/ t.main.at \in MainStages
               /\ t.unsaved \/ t.loose => t.dirty
    <3> DEFINE t == tab[w]
    <3>1. t \in TabType /\ Marked(t)
      BY DEF IInv, WindowOK, Base
    <3> HIDE DEF t
    <3>2. DOMAIN t = DOMAIN Blank
      BY <3>1 DEF TabType, Blank
    <3>3. /\ t.cur \in Ids \cup {NoId} /\ t.gen \in 0..MaxGeneration /\ t.of \in Nat
          /\ t.dirty \in BOOLEAN /\ t.unsaved \in BOOLEAN /\ t.loose \in BOOLEAN
          /\ t.orphan \in BOOLEAN /\ t.hydrated \in BOOLEAN /\ t.due \in BOOLEAN
          /\ t.returned \in BOOLEAN /\ t.lost \subseteq Losses
          /\ t.auto \in AutoType /\ t.hyd \in HydType /\ t.main \in MainType
      BY <3>1 DEF TabType
    <3>4. /\ {t.dirty, t.unsaved, t.loose, t.orphan, t.hydrated, t.due,
              t.returned} \subseteq BOOLEAN
          /\ t.lost \subseteq {"settled", "loose", "refused", "closed"}
      BY <3>3 DEF Losses
    <3>5. t.auto = Idle \/ t.auto.at \in AutoStages
      BY <3>3 DEF AutoType, AutoStages
    <3>6. t.hyd = Idle \/ t.hyd.at \in HydStages
      BY <3>3 DEF HydType, HydStages
    <3>7. t.main = Idle \/ t.main.at \in MainStages
      BY <3>3 DEF MainType, ChainType
    <3>8. t.unsaved \/ t.loose => t.dirty
      BY <3>1 DEF Marked, Edited
    <3> QED BY <3>2, <3>3, <3>4, <3>5, <3>6, <3>7, <3>8 DEF t
  <2>2. /\ active \in Ids \cup {NoId} /\ notices \in [Windows -> SUBSET Ids]
        /\ acts \in 0..MaxActs
    BY DEF IInv, StoreOK
  <2> QED BY <2>1, <2>2 DEF TypeOK
<1> QED BY <1>1, Invariant, PTL

(* main.tsx:1656-1660: in every window, a draft that is older than the last *)
(* removal, undo or handover of its scenario is never accepted by the       *)
(* store, unless it was put back after a failed opening.                    *)
THEOREM DraftsAreFenced == Spec => []StaleDraftIsFenced
<1>1. IInv => StaleDraftIsFenced
  <2> SUFFICES ASSUME IInv, NEW w \in Windows, tab[w].cur # NoId, ~tab[w].returned
               PROVE  tab[w].of = epoch[tab[w].cur] \/ tab[w].gen < generation[tab[w].cur]
    BY DEF StaleDraftIsFenced
  <2> DEFINE t == tab[w]
  <2>1. /\ Draft(t, generation) /\ t.cur \in Ids /\ t.gen \in 0..MaxGeneration
        /\ epoch = generation /\ generation[t.cur] \in 0..MaxGeneration
    BY DEF IInv, StoreOK, WindowOK, Base, Fenced, TabType
  <2> QED BY <2>1, TabsAssumption DEF Draft
<1> QED BY <1>1, Invariant, PTL

(* No window replaces a draft whose settled edits are nowhere else,         *)
(* whatever the windows, edits, removals, undos and reloads do in between,  *)
(* and whenever they do it.                                                 *)
THEOREM EditsAreKept == Spec => []UnsavedIsKept
<1>1. IInv => UnsavedIsKept
  BY DEF IInv, WindowOK, Base, UnsavedIsKept
<1> QED BY <1>1, Invariant, PTL
=============================================================================
