----------------------- MODULE CustomisationSync_proofs -----------------------
(***************************************************************************)
(* Proofs about CustomisationSync, for a plug-in of any files and any of   *)
(* the bounds.                                                             *)
(***************************************************************************)
EXTENDS CustomisationSync, TLAPS

-----------------------------------------------------------------------------
(* The types. *)

DataType ==
    /\ setup \in Setups /\ left \in [Bounds -> Nat] /\ \A b \in Bounds : left[b] <= setup[b]
    /\ vault \in Contents /\ v1 \in [Term -> Contents] /\ v2 \in [Term -> Contents]
InputType == events \subseteq File /\ recent \subseteq File \X BOOLEAN /\ task \in File \cup {None}
StoreType ==
    \A r \in stores : /\ r = [by |-> r.by, file |-> r.file, got |-> r.got]
                      /\ r.by \in {"event", "scan", "apply"} /\ r.file \in File
                      /\ r.got \in [DOMAIN r.got -> Nat] /\ DOMAIN r.got \subseteq Targets(r)
ScanType == scan \in [at : {"idle", "due", "list", "delete", "store"}, found : SUBSET File, drop : SUBSET Key]
\* The entries the list and the loads name are there.
DisplayOK(l, sh, ld) ==
    /\ DOMAIN l = Term /\ DOMAIN sh = Term
    /\ \A t \in Term : /\ l[t] # NoEntry => l[t] \in DOMAIN sh[t]
                       /\ \A e \in DOMAIN sh[t] : sh[t][e] \in Contents
    /\ \A r \in ld : r.term \in Term /\ r.file \in File /\ r.entry \in DOMAIN sh[r.term]
DisplayType == DisplayOK(list, shown, loading) /\ queue \subseteq Term
MigrateType ==
    /\ migrating \in [Term -> [copy : Contents, todo : SUBSET File, drop : BOOLEAN]]
    /\ \A t \in Term : migrating[t] = NoMigration \/ migrating[t].todo # {} \/ migrating[t].drop
CommandType ==
    /\ applying \in [copy : Contents, todo : SUBSET File] /\ applying.todo \subseteq Present(applying.copy)
    /\ deleting \in [term : Term \cup {None}, todo : SUBSET Key]
    /\ deleting # NoDelete => deleting.term \in Term

TypeInv == DataType /\ InputType /\ StoreType /\ ScanType /\ DisplayType /\ MigrateType /\ CommandType

LEMMA SetupFacts ==
    ASSUME DataType
    PROVE  /\ {setup.v2, setup.sweep, setup.watch, setup.vault, setup.v1, setup.same, setup.overlap} \subseteq BOOLEAN
           /\ \A b \in Bounds : setup[b] \in Nat
           /\ File # {} /\ Whole \notin File /\ None \notin File
<1>1. IsSetup(setup)
  BY CustomisationAssumption DEF DataType
<1> QED BY <1>1, CustomisationAssumption DEF IsSetup

\* What an action leaves alone keeps its type.
LEMMA Unmoved ==
    /\ DataType /\ UNCHANGED <<setup, outside, docs>> => DataType'
    /\ InputType /\ UNCHANGED input => InputType'
    /\ StoreType /\ UNCHANGED <<setup, stores>> => StoreType'
    /\ ScanType /\ UNCHANGED scan => ScanType'
    /\ DisplayType /\ UNCHANGED display => DisplayType'
    /\ MigrateType /\ UNCHANGED migrating => MigrateType'
    /\ CommandType /\ UNCHANGED commands => CommandType'
<1>1. DataType /\ UNCHANGED <<setup, outside, docs>> => DataType'
  BY DEF DataType, outside, docs, Contents
<1>2. InputType /\ UNCHANGED input => InputType'
  BY DEF InputType, input
<1>3. StoreType /\ UNCHANGED <<setup, stores>> => StoreType'
  BY DEF StoreType, Targets
<1>4. ScanType /\ UNCHANGED scan => ScanType'
  BY DEF ScanType
<1>5. DisplayType /\ UNCHANGED display => DisplayType'
  BY DEF DisplayType, display
<1>6. MigrateType /\ UNCHANGED migrating => MigrateType'
  BY DEF MigrateType
<1>7. CommandType /\ UNCHANGED commands => CommandType'
  BY DEF CommandType, commands
<1> QED BY <1>1, <1>2, <1>3, <1>4, <1>5, <1>6, <1>7

LEMMA ContentsFacts ==
    /\ Nothing \in Contents
    /\ \A c \in Contents : /\ Present(c) \subseteq File
                           /\ Present(c) = {} <=> c = Nothing
                           /\ \A f \in File : c[f] \in Nat
                           /\ \A f \in File, n \in Nat : [c EXCEPT ![f] = n] \in Contents
<1>1. Nothing \in Contents /\ \A f \in File : Nothing[f] = 0
  BY DEF Nothing, Contents
<1>2. ASSUME NEW c \in Contents PROVE Present(c) = {} <=> c = Nothing
  <2>1. c = [f \in File |-> c[f]]
    BY DEF Contents
  <2>2. Present(c) = {} => c = Nothing
    BY <2>1 DEF Present, Nothing
  <2>3. c = Nothing => Present(c) = {}
    BY <1>1 DEF Present
  <2> QED BY <2>2, <2>3
<1> QED BY <1>1, <1>2 DEF Present, Contents

LEMMA DataSet ==
    ASSUME DataType, setup' = setup, NEW t \in Term, NEW f \in File, NEW n \in Nat
    PROVE  /\ [v1 EXCEPT ![t] = Nothing] \in [Term -> Contents]
           /\ [v2 EXCEPT ![t][f] = n] \in [Term -> Contents]
           /\ [vault EXCEPT ![f] = n] \in Contents
<1>1. v2[t] \in Contents /\ [v2[t] EXCEPT ![f] = n] \in Contents
  BY ContentsFacts DEF DataType
<1>2. [v2 EXCEPT ![t][f] = n] = [v2 EXCEPT ![t] = [v2[t] EXCEPT ![f] = n]]
  OBVIOUS
<1> QED BY <1>1, <1>2, ContentsFacts DEF DataType

LEMMA SpendFacts ==
    ASSUME DataType, NEW b \in Bounds, Spend(b)
    PROVE  /\ left' \in [Bounds -> Nat] /\ left[b] \in Nat \ {0} /\ setup[b] \in Nat /\ left[b] <= setup[b]
           /\ \A c \in Bounds : left'[c] <= setup[c] /\ left'[c] <= left[c]
           /\ left'[b] = left[b] - 1
<1>1. left \in [Bounds -> Nat] /\ \A c \in Bounds : left[c] <= setup[c]
  BY DEF DataType
<1>2. left[b] > 0 /\ left' = [left EXCEPT ![b] = left[b] - 1]
  BY DEF Spend
<1>3. \A c \in Bounds : setup[c] \in Nat /\ left[c] \in Nat
  BY <1>1, SetupFacts
<1> QED BY <1>1, <1>2, <1>3

LEMMA SpendType ==
    ASSUME DataType, NEW b \in Bounds, Spend(b), UNCHANGED <<setup, vault, docs>>
    PROVE  DataType'
BY SpendFacts DEF DataType, docs, Contents

LEMMA DeleteConfigType ==
    ASSUME DataType, UNCHANGED <<setup, outside>>, NEW t \in Term, NEW k \in Key, DeleteConfig(t, k)
    PROVE  DataType'
<1>1. v1' \in [Term -> Contents] /\ v2' \in [Term -> Contents]
  <2>1. CASE k = Whole
    <3>1. v1' = [v1 EXCEPT ![t] = Nothing] /\ v2' = v2
      BY <2>1 DEF DeleteConfig
    <3>2. Nothing \in Contents
      BY ContentsFacts
    <3> QED BY <3>1, <3>2 DEF DataType
  <2>2. CASE k \in File
    <3>1. v2' = [v2 EXCEPT ![t][k] = 0] /\ v1' = v1
      BY <2>2, SetupFacts DEF DeleteConfig
    <3> QED BY <3>1, <2>2, DataSet DEF DataType
  <2> QED BY <2>1, <2>2 DEF Key
<1> QED BY <1>1 DEF DataType, outside, Contents

LEMMA DeleteType ==
    ASSUME DataType, UNCHANGED <<setup, vault>>, NEW t \in Term, NEW k \in Key, DeleteOrFail(t, k)
    PROVE  DataType'
<1>1. CASE DeleteConfig(t, k) /\ UNCHANGED left
  BY <1>1, DeleteConfigType DEF outside
<1>2. CASE Spend("fails") /\ UNCHANGED docs
  BY <1>2, SpendType DEF Bounds
<1> QED BY <1>1, <1>2 DEF DeleteOrFail

\* What Held leaves is there for the list and the loads.
LEMMA HeldOK ==
    ASSUME NEW l, NEW sh, NEW ld, DisplayOK(l, sh, ld)
    PROVE  DisplayOK(l, Held(l, ld, sh), ld)
<1> DEFINE kept(t) == {e \in DOMAIN sh[t] : l[t] = e \/ \E r \in ld : r.term = t /\ r.entry = e}
<1>1. \A t \in Term : Held(l, ld, sh)[t] = [e \in kept(t) |-> sh[t][e]]
  BY DEF Held, Restrict
<1>2. DOMAIN Held(l, ld, sh) = Term
  BY DEF Held
<1>3. \A t \in Term : DOMAIN Held(l, ld, sh)[t] = kept(t)
  BY <1>1
<1>4. \A t \in Term : \A e \in kept(t) : Held(l, ld, sh)[t][e] = sh[t][e]
  BY <1>1
<1>5. \A t \in Term : l[t] # NoEntry => l[t] \in kept(t)
  BY DEF DisplayOK
<1>6. \A r \in ld : r.term \in Term /\ r.file \in File /\ r.entry \in kept(r.term)
  BY DEF DisplayOK
<1>7. \A t \in Term : \A e \in kept(t) : sh[t][e] \in Contents
  BY DEF DisplayOK
<1>8. DOMAIN l = Term
  BY DEF DisplayOK
<1> HIDE DEF kept
<1> QED BY <1>2, <1>3, <1>4, <1>5, <1>6, <1>7, <1>8 DEF DisplayOK

LEMMA LoadsOK ==
    ASSUME DisplayType, NEW l, NEW g, NEW set \in SUBSET (Term \X File),
           DOMAIN l = Term, \A t \in Term : l[t] = NoEntry \/ l[t] = list[t], Loads(l, g, set)
    PROVE  DisplayOK(l, shown', loading')
<1> DEFINE ld == loading \cup Begun(l, g, set)
           E(t) == {r.entry : r \in {q \in ld : q.term = t}}
           new == [t \in Term |-> E(t) \ DOMAIN shown[t]]
           sh == [t \in Term |-> With(shown[t], new[t], Nothing)]
<1>1. loading' = ld /\ shown' = Held(l, ld, sh)
  BY DEF Loads
<1>2. \A t \in Term : sh[t] = [e \in DOMAIN shown[t] \cup E(t) |->
                                  IF e \in DOMAIN shown[t] THEN shown[t][e] ELSE Nothing]
  <2> SUFFICES ASSUME NEW t \in Term
               PROVE  sh[t] = [e \in DOMAIN shown[t] \cup E(t) |->
                                  IF e \in DOMAIN shown[t] THEN shown[t][e] ELSE Nothing]
    OBVIOUS
  <2>1. sh[t] = With(shown[t], E(t) \ DOMAIN shown[t], Nothing)
    OBVIOUS
  <2> HIDE DEF E, sh, ld
  <2> QED BY <2>1 DEF With
<1>3. \A r \in ld : r.term \in Term /\ r.file \in File
  <2>1. \A r \in Begun(l, g, set) : r.term \in Term /\ r.file \in File
    BY DEF Begun, Load
  <2> QED BY <2>1 DEF DisplayType, DisplayOK
<1>4. \A r \in ld : r.entry \in E(r.term)
  OBVIOUS
<1>5. DOMAIN sh = Term
  OBVIOUS
<1>6. \A t \in Term : (l[t] # NoEntry => l[t] \in DOMAIN shown[t]) /\ \A e \in DOMAIN shown[t] : shown[t][e] \in Contents
  BY DEF DisplayType, DisplayOK
<1> HIDE DEF ld, E, sh
<1>7. DisplayOK(l, sh, ld)
  <2>1. \A t \in Term : DOMAIN sh[t] = DOMAIN shown[t] \cup E(t)
    BY <1>2
  <2>2. \A t \in Term : \A e \in DOMAIN sh[t] : sh[t][e] \in Contents
    <3> SUFFICES ASSUME NEW t \in Term, NEW e \in DOMAIN sh[t] PROVE sh[t][e] \in Contents
      OBVIOUS
    <3>1. sh[t][e] = IF e \in DOMAIN shown[t] THEN shown[t][e] ELSE Nothing
      BY <1>2, <2>1
    <3> QED BY <3>1, <1>6, ContentsFacts
  <2> QED BY <2>1, <2>2, <1>3, <1>4, <1>5, <1>6 DEF DisplayOK
<1> QED BY <1>1, <1>7, HeldOK

LEMMA NewStore ==
    ASSUME DataType, StoreType, NEW by \in {"event", "scan", "apply"}, NEW F \in SUBSET File,
           UNCHANGED setup, stores' = stores \cup {Store(by, f) : f \in F}
    PROVE  StoreType'
<1>1. \A f \in F : Store(by, f) = [by |-> by, file |-> f, got |-> <<>>]
  BY DEF Store
<1>2. <<>> \in [DOMAIN <<>> -> Nat] /\ DOMAIN <<>> = {}
  OBVIOUS
<1>3. \A r : Targets(r)' = Targets(r)
  BY DEF Targets
<1>4. ASSUME NEW f \in F
      PROVE  LET r == Store(by, f)
             IN  /\ r = [by |-> r.by, file |-> r.file, got |-> r.got]
                 /\ r.by \in {"event", "scan", "apply"} /\ r.file \in File
                 /\ r.got \in [DOMAIN r.got -> Nat] /\ DOMAIN r.got \subseteq Targets(r)
  <2> DEFINE r == Store(by, f)
  <2>1. r = [by |-> by, file |-> f, got |-> <<>>]
    BY <1>1
  <2>2. r.by = by /\ r.file = f /\ r.got = <<>>
    BY <2>1
  <2> HIDE DEF r
  <2>3. r.got \in [DOMAIN r.got -> Nat] /\ DOMAIN r.got \subseteq Targets(r)
    BY <2>2, <1>2
  <2> QED BY <2>1, <2>2, <2>3 DEF r
<1> QED BY <1>3, <1>4 DEF StoreType

\* Fewer stores, of the same kind
LEMMA FewerStores ==
    ASSUME StoreType, UNCHANGED setup, stores' \subseteq stores
    PROVE  StoreType'
<1>1. \A r : Targets(r)' = Targets(r)
  BY DEF Targets
<1> QED BY <1>1 DEF StoreType

LEMMA LoadedType ==
    ASSUME TypeInv, NEW r \in loading, Loaded(r)
    PROVE  DisplayType'
<1> DEFINE c == v2[r.term][r.file]
           l == [list EXCEPT ![r.term] = r.entry]
           ld == loading \ {r}
           sh == IF c = 0 THEN shown ELSE [shown EXCEPT ![r.term][r.entry][r.file] = c]
<1>1. list' = l /\ loading' = ld /\ shown' = Held(l, ld, sh) /\ queue' = queue
  BY DEF Loaded
<1>2. r.term \in Term /\ r.file \in File /\ r.entry \in DOMAIN shown[r.term]
  BY DEF TypeInv, DisplayType, DisplayOK
<1>3. c \in Nat
  BY <1>2, ContentsFacts DEF TypeInv, DataType
<1>4. DisplayOK(l, shown, ld)
  BY <1>2 DEF TypeInv, DisplayType, DisplayOK
<1>5. DisplayOK(l, sh, ld)
  <2>1. CASE c = 0
    BY <2>1, <1>4
  <2>2. CASE c # 0
    <3> DEFINE e == r.entry
               s == [shown[r.term] EXCEPT ![e] = [shown[r.term][e] EXCEPT ![r.file] = c]]
    <3>1. sh = [shown EXCEPT ![r.term] = s]
      BY <2>2
    <3>2. DOMAIN s = DOMAIN shown[r.term] /\ \A x \in DOMAIN s : s[x] \in Contents
      <4>1. [shown[r.term][e] EXCEPT ![r.file] = c] \in Contents
        BY <1>2, <1>3, <1>4, ContentsFacts DEF DisplayOK
      <4>2. \A x \in DOMAIN shown[r.term] : shown[r.term][x] \in Contents
        BY <1>2, <1>4 DEF DisplayOK
      <4> QED BY <4>1, <4>2
    <3>3. DOMAIN sh = Term /\ \A t \in Term : sh[t] = IF t = r.term THEN s ELSE shown[t]
      BY <3>1, <1>4 DEF DisplayOK
    <3> HIDE DEF s, sh, l, ld
    <3> QED BY <3>2, <3>3, <1>4 DEF DisplayOK
  <2> QED BY <2>1, <2>2
<1> HIDE DEF l, ld, sh
<1> QED BY <1>1, <1>5, HeldOK DEF TypeInv, DisplayType

LEMMA ListWholeType ==
    ASSUME TypeInv, NEW t \in Term, ListWhole(t)
    PROVE  DisplayType'
<1>1. queue' \subseteq Term /\ loading' = loading
  BY DEF ListWhole, TypeInv, DisplayType
<1>2. CASE Live(v1[t]) /\ Mtime(Shown(t)) # Mtime(v1[t])
  <2> DEFINE l == [list EXCEPT ![t] = WholeEntry]
             s == With(shown[t], {WholeEntry}, v1[t])
             sh == [shown EXCEPT ![t] = s]
  <2>1. list' = l /\ shown' = Held(l, loading, sh)
    BY <1>2 DEF ListWhole
  <2>2. DOMAIN s = DOMAIN shown[t] \cup {WholeEntry} /\ \A x \in DOMAIN s : s[x] = IF x = WholeEntry THEN v1[t] ELSE shown[t][x]
    BY DEF With
  <2>3. v1[t] \in Contents /\ DisplayOK(list, shown, loading)
    BY DEF TypeInv, DataType, DisplayType
  <2>4. DOMAIN sh = Term /\ \A u \in Term : sh[u] = IF u = t THEN s ELSE shown[u]
    BY <2>3 DEF DisplayOK
  <2>5. DOMAIN l = Term /\ \A u \in Term : l[u] = IF u = t THEN WholeEntry ELSE list[u]
    BY <2>3 DEF DisplayOK
  <2> HIDE DEF l, s, sh
  <2>6. DisplayOK(l, sh, loading)
    BY <2>2, <2>3, <2>4, <2>5 DEF DisplayOK
  <2> QED BY <2>1, <2>6, <1>1, HeldOK DEF DisplayType
<1>3. CASE ~(Live(v1[t]) /\ Mtime(Shown(t)) # Mtime(v1[t]))
  BY <1>1, <1>3 DEF ListWhole, TypeInv, DisplayType
<1> QED BY <1>2, <1>3

LEMMA UpdatedType ==
    ASSUME TypeInv, NEW t \in Term, NEW k \in Key, Updated(t, k)
    PROVE  DisplayType'
<1>1. CASE k = Whole
  BY <1>1 DEF Updated, TypeInv, DisplayType
<1>2. CASE k # Whole
  <2>1. k \in File /\ list' = list /\ queue' = queue
    BY <1>2 DEF Key, Updated
  <2>2. CASE Loads(list, gen, {<<t, k>>})
    <3>1. {<<t, k>>} \in SUBSET (Term \X File) /\ DOMAIN list = Term
      BY <2>1 DEF TypeInv, DisplayType, DisplayOK
    <3>2. DisplayOK(list, shown', loading')
      BY <3>1, <2>2, LoadsOK DEF TypeInv
    <3> QED BY <3>2, <2>1 DEF TypeInv, DisplayType
  <2>3. CASE UNCHANGED <<loading, shown>>
    BY <2>1, <2>3 DEF TypeInv, DisplayType
  <2> QED BY <1>2, <2>2, <2>3 DEF Updated
<1> QED BY <1>1, <1>2

LEMMA UpdateListType ==
    ASSUME TypeInv, UpdatePluginList \/ ReloadPluginList
    PROVE  DisplayType'
<1>1. LiveFiles \in SUBSET (Term \X File) /\ LiveWholes \subseteq Term /\ queue \subseteq Term /\ DOMAIN list = Term
  BY DEF LiveFiles, LiveWholes, TypeInv, DisplayType, DisplayOK
<1>2. CASE UpdatePluginList
  <2>1. DisplayOK(list, shown', loading')
    BY <1>1, <1>2, LoadsOK DEF UpdatePluginList, TypeInv
  <2> QED BY <2>1, <1>1, <1>2 DEF UpdatePluginList, DisplayType
<1>3. CASE ReloadPluginList
  <2> DEFINE l == [t \in Term |-> NoEntry]
  <2>1. list' = l /\ Loads(l, gen + 1, LiveFiles) /\ queue' = queue \cup LiveWholes
    BY <1>3 DEF ReloadPluginList
  <2>2. DOMAIN l = Term /\ \A t \in Term : l[t] = NoEntry \/ l[t] = list[t]
    OBVIOUS
  <2> HIDE DEF l
  <2>3. DisplayOK(l, shown', loading')
    BY <1>1, <2>1, <2>2, LoadsOK DEF TypeInv
  <2> QED BY <2>1, <2>3, <1>1 DEF DisplayType
<1> QED BY <1>2, <1>3
-----------------------------------------------------------------------------
(* Each action keeps the types. *)

LEMMA StoringType ==
    ASSUME TypeInv, UNCHANGED setup, Storing
    PROVE  TypeInv'
<1> USE DEF TypeInv
<1>1. ASSUME NEW r \in stores, NEW f \in File, Read(r, f) PROVE TypeInv'
  <2> DEFINE q == [r EXCEPT !.got = With(r.got, {f}, vault[f])]
  <2>1. r = [by |-> r.by, file |-> r.file, got |-> r.got] /\ DOMAIN r.got \subseteq Targets(r)
        /\ r.by \in {"event", "scan", "apply"} /\ r.file \in File /\ r.got \in [DOMAIN r.got -> Nat]
    BY DEF StoreType
  <2>2. vault[f] \in Nat /\ f \in Targets(r)
    BY <1>1, ContentsFacts DEF DataType, Read
  <2>3. q.got = With(r.got, {f}, vault[f]) /\ q.by = r.by /\ q.file = r.file
        /\ q = [by |-> q.by, file |-> q.file, got |-> q.got]
    BY <2>1
  <2>4. q.got = [g \in DOMAIN r.got \cup {f} |-> IF g \in {f} THEN vault[f] ELSE r.got[g]]
    BY <2>3 DEF With
  <2> HIDE DEF q
  <2>5. DOMAIN q.got = DOMAIN r.got \cup {f} /\ q.got \in [DOMAIN q.got -> Nat]
    BY <2>1, <2>2, <2>4
  <2>6. \A p : Targets(p)' = Targets(p)
    BY DEF Targets
  <2>7. Targets(q) = Targets(r)
    BY <2>3 DEF Targets
  <2>8. stores' \subseteq stores \cup {q}
    BY <1>1 DEF Read, q
  <2>9. StoreType'
    BY <2>1, <2>2, <2>3, <2>5, <2>6, <2>7, <2>8 DEF StoreType
  <2> QED BY <1>1, <2>9, Unmoved DEF Read
<1>2. ASSUME NEW r \in stores, Put(r) PROVE TypeInv'
  <2>1. StoreType'
    BY <1>2, FewerStores DEF Put
  <2>2. r.file \in File /\ r.got \in [DOMAIN r.got -> Nat] /\ DOMAIN r.got = Targets(r) /\ Mine \in Term
    BY <1>2 DEF StoreType, Put, Term
  <2>3. DataType'
    <3>1. CASE setup.v2
      <4>1. v2' = [v2 EXCEPT ![Mine][r.file] = r.got[r.file]] /\ v1' = v1
        BY <1>2, <3>1 DEF Put
      <4>2. r.got[r.file] \in Nat
        BY <2>2, <3>1 DEF Targets
      <4>3. v2' \in [Term -> Contents]
        BY <4>1, <4>2, <2>2, DataSet
      <4> QED BY <1>2, <4>1, <4>3 DEF Put, DataType, outside, Contents
    <3>2. CASE ~setup.v2
      <4>1. (v1' = v1 \/ v1' = [v1 EXCEPT ![Mine] = r.got]) /\ v2' = v2 /\ r.got \in Contents
        BY <1>2, <3>2, <2>2 DEF Put, Targets, Contents
      <4>2. v1' \in [Term -> Contents]
        BY <4>1 DEF DataType
      <4> QED BY <1>2, <4>1, <4>2 DEF Put, DataType, outside, Contents
    <3> QED BY <3>1, <3>2
  <2>4. DisplayType'
    <3>1. UNCHANGED display \/ Updated(Mine, r.file) \/ Updated(Mine, Whole)
      BY <1>2 DEF Put
    <3>2. r.file \in Key /\ Whole \in Key
      BY <2>2 DEF Key
    <3> QED BY <3>1, <3>2, <2>2, UpdatedType, Unmoved
  <2> QED BY <1>2, <2>1, <2>3, <2>4, Unmoved DEF Put
<1>3. CASE TaskFires
  <2>1. task \in File
    BY <1>3 DEF TaskFires, InputType
  <2>2. stores' = stores \cup {Store("event", f) : f \in {task}} /\ {task} \in SUBSET File
    BY <1>3, <2>1 DEF TaskFires
  <2>3. StoreType'
    BY <2>2, NewStore
  <2>4. InputType'
    BY <1>3 DEF TaskFires, InputType
  <2> QED BY <1>3, <2>3, <2>4, Unmoved DEF TaskFires
<1>4. ASSUME NEW f \in File, WatchVaultRawEvents(f) PROVE TypeInv'
  <2>1. InputType'
    <3> DEFINE there == vault[f] # 0
    <3>1. there \in BOOLEAN /\ <<f, there>> \in File \X BOOLEAN
      OBVIOUS
    <3>2. recent' = recent \cup {<<f, there>>} /\ events' \subseteq events /\ (task' = task \/ task' = f)
      BY <1>4 DEF WatchVaultRawEvents
    <3> HIDE DEF there
    <3> QED BY <3>1, <3>2 DEF InputType
  <2> QED BY <1>4, <2>1, Unmoved DEF WatchVaultRawEvents
<1> QED BY <1>1, <1>2, <1>3, <1>4 DEF Storing

LEMMA ScanningType ==
    ASSUME TypeInv, UNCHANGED setup, BeginScan \/ Scanning
    PROVE  TypeInv'
<1> USE DEF TypeInv
<1> DEFINE Ats == {"idle", "due", "list", "delete", "store"}
           Scans == [at : Ats, found : SUBSET File, drop : SUBSET Key]
<1>0. scan \in Scans /\ \A a \in Ats, d \in SUBSET Key : /\ [scan EXCEPT !.at = a] \in Scans
                                                       /\ [scan EXCEPT !.drop = d] \in Scans
                                                       /\ [scan EXCEPT !.at = a, !.drop = d] \in Scans
  BY DEF ScanType
<1>1. CASE BeginScan
  <2>1. Present(vault) \subseteq File
    BY DEF Present
  <2>2. ScanType'
    BY <1>1, <2>1 DEF BeginScan, ScanType, NoScan
  <2> QED BY <1>1, <2>2, Unmoved DEF BeginScan
<1>2. CASE ListDocuments
  <2> DEFINE whole == IF Live(v1[Mine]) /\ (setup.v2 \/ scan.found = {}) THEN {Whole} ELSE {}
             files == IF setup.v2 THEN {} ELSE Present(v2[Mine])
  <2>1. whole \cup files \in SUBSET Key
    BY DEF Key, Present
  <2>2. scan' = [scan EXCEPT !.at = IF setup.v2 THEN "delete" ELSE "store", !.drop = whole \cup files]
    BY <1>2 DEF ListDocuments
  <2> HIDE DEF whole, files, Scans
  <2>3. scan' \in Scans
    BY <1>0, <2>1, <2>2
  <2>4. ScanType'
    BY <2>3 DEF Scans, ScanType
  <2>5. StoreType'
    <3>1. CASE setup.v2 \/ scan.found = {}
      BY <1>2, <3>1, FewerStores DEF ListDocuments
    <3>2. CASE ~(setup.v2 \/ scan.found = {})
      <4> DEFINE f == CHOOSE f \in scan.found : TRUE
      <4>1. f \in File
        BY <3>2 DEF ScanType
      <4>2. stores' = stores \cup {Store("scan", g) : g \in {f}}
        BY <1>2, <3>2 DEF ListDocuments
      <4>3. {f} \in SUBSET File
        BY <4>1
      <4> HIDE DEF f
      <4> QED BY <4>2, <4>3, NewStore
    <3> QED BY <3>1, <3>2
  <2> QED BY <1>2, <2>4, <2>5, Unmoved DEF ListDocuments
<1>3. CASE ScanStoresFiles
  <2>1. scan.found \in SUBSET File
    BY DEF ScanType
  <2>2. StoreType'
    BY <1>3, <2>1, NewStore DEF ScanStoresFiles
  <2>3. ScanType'
    BY <1>0, <1>3 DEF ScanStoresFiles, ScanType
  <2> QED BY <1>3, <2>2, <2>3, Unmoved DEF ScanStoresFiles
<1>4. CASE ScanStored
  <2>1. ScanType'
    BY <1>0, <1>4 DEF ScanStored, ScanType
  <2> QED BY <1>4, <2>1, Unmoved DEF ScanStored
<1>5. CASE EndScan
  <2>1. ScanType'
    BY <1>5 DEF EndScan, ScanType, NoScan
  <2>2. DisplayType'
    BY <1>5, UpdateListType DEF EndScan
  <2> QED BY <1>5, <2>1, <2>2, Unmoved DEF EndScan
<1>6. ASSUME NEW k \in Key, ScanDeletes(k) PROVE TypeInv'
  <2>1. scan.drop \ {k} \in SUBSET Key
    BY DEF ScanType
  <2>2. ScanType'
    BY <1>0, <1>6, <2>1 DEF ScanDeletes, ScanType
  <2>3. DataType'
    BY <1>6, DeleteType DEF ScanDeletes, Term
  <2> QED BY <1>6, <2>2, <2>3, Unmoved DEF ScanDeletes
<1> QED BY <1>1, <1>2, <1>3, <1>4, <1>5, <1>6 DEF Scanning

LEMMA OnwardType ==
    ASSUME MigrateType, NEW t \in Term, NEW todo \in SUBSET File, NEW drop \in BOOLEAN,
           Onward(t, todo, drop)
    PROVE  MigrateType'
<1> DEFINE Records == [copy : Contents, todo : SUBSET File, drop : BOOLEAN]
           m == IF todo = {} /\ ~drop THEN NoMigration
                ELSE [migrating[t] EXCEPT !.todo = todo, !.drop = drop]
<1>1. migrating \in [Term -> Records] /\ migrating' = [migrating EXCEPT ![t] = m]
  BY DEF MigrateType, Onward
<1>2. m \in Records /\ (m = NoMigration \/ m.todo # {} \/ m.drop)
  <2>1. CASE todo = {} /\ ~drop
    BY <2>1, ContentsFacts DEF NoMigration
  <2>2. CASE ~(todo = {} /\ ~drop)
    <3>1. m = [migrating[t] EXCEPT !.todo = todo, !.drop = drop] /\ migrating[t] \in Records
      BY <1>1, <2>2
    <3>2. m \in Records /\ m.todo = todo /\ m.drop = drop
      BY <3>1
    <3> QED BY <2>2, <3>2
  <2> QED BY <2>1, <2>2
<1>3. \A u \in Term : migrating'[u] = IF u = t THEN m ELSE migrating[u]
  BY <1>1
<1>4. migrating' \in [Term -> Records]
  BY <1>1, <1>2
<1> HIDE DEF m
<1> QED BY <1>2, <1>3, <1>4 DEF MigrateType

LEMMA MigratingType ==
    ASSUME TypeInv, UNCHANGED setup, Migrating
    PROVE  TypeInv'
<1> USE DEF TypeInv
<1> DEFINE Records == [copy : Contents, todo : SUBSET File, drop : BOOLEAN]
<1>0. migrating \in [Term -> Records]
  BY DEF MigrateType
<1>1. ASSUME NEW t \in Term, Migrate(t) PROVE TypeInv'
  <2> DEFINE m == [copy |-> v1[t], todo |-> Present(v1[t]), drop |-> FALSE]
  <2>1. v1[t] \in Contents
    BY DEF DataType
  <2>2. m \in Records
    BY <2>1, ContentsFacts
  <2>3. m = NoMigration \/ m.todo # {}
    BY <2>1, ContentsFacts DEF NoMigration
  <2>4. migrating' = [migrating EXCEPT ![t] = m]
    BY <1>1 DEF Migrate
  <2> HIDE DEF m
  <2>5. migrating' \in [Term -> Records] /\ \A u \in Term : migrating'[u] = IF u = t THEN m ELSE migrating[u]
    BY <1>0, <2>2, <2>4
  <2>6. MigrateType'
    BY <2>3, <2>5 DEF MigrateType
  <2>7. DisplayType'
    BY <1>1 DEF Migrate, DisplayType
  <2> QED BY <1>1, <2>6, <2>7, Unmoved DEF Migrate
<1>2. ASSUME NEW t \in Term, MigrateDrops(t) PROVE TypeInv'
  <2>1. migrating[t].todo \in SUBSET File /\ Whole \in Key
    BY <1>0 DEF Key
  <2>2. MigrateType'
    BY <1>2, <2>1, OnwardType DEF MigrateDrops
  <2>3. DataType'
    BY <1>2, <2>1, DeleteType DEF MigrateDrops
  <2> QED BY <1>2, <2>2, <2>3, Unmoved DEF MigrateDrops
<1>3. ASSUME NEW t \in Term, NEW f \in File, MigrateFile(t, f) PROVE TypeInv'
  <2>1. migrating[t].todo \ {f} \in SUBSET File /\ migrating[t].copy \in Contents
    BY <1>0
  <2>2. MigrateType'
    <3>1. \E todo \in SUBSET File, drop \in BOOLEAN : Onward(t, todo, drop)
      BY <1>3, <2>1 DEF MigrateFile
    <3> QED BY <3>1, OnwardType
  <2>3. DataType'
    <3>1. CASE v2' = [v2 EXCEPT ![t][f] = migrating[t].copy[f]] /\ UNCHANGED <<v1, left>>
      <4>1. migrating[t].copy[f] \in Nat
        BY <2>1, ContentsFacts
      <4>2. v2' \in [Term -> Contents]
        BY <3>1, <4>1, DataSet
      <4> QED BY <1>3, <3>1, <4>2 DEF MigrateFile, DataType, Contents
    <3>2. CASE Spend("fails") /\ UNCHANGED docs
      BY <1>3, <3>2, SpendType DEF MigrateFile, Bounds
    <3> QED BY <1>3, <3>1, <3>2 DEF MigrateFile
  <2> QED BY <1>3, <2>2, <2>3, Unmoved DEF MigrateFile
<1> QED BY <1>1, <1>2, <1>3 DEF Migrating

LEMMA DialogueType ==
    ASSUME TypeInv, UNCHANGED setup, Dialogue
    PROVE  TypeInv'
<1> USE DEF TypeInv
<1> DEFINE Applies == [copy : Contents, todo : SUBSET File]
           Deletes == [term : Term \cup {None}, todo : SUBSET Key]
<1>0. applying \in Applies /\ applying.todo \subseteq Present(applying.copy)
      /\ deleting \in Deletes /\ (deleting # NoDelete => deleting.term \in Term)
  BY DEF CommandType
<1>1. CASE EndApply
  <2>1. CommandType'
    BY <1>0, <1>1, ContentsFacts DEF EndApply, CommandType, NoApply
  <2>2. StoreType'
    <3>1. CASE setup.v2
      BY <1>1, <3>1, FewerStores DEF EndApply
    <3>2. CASE ~setup.v2
      <4> DEFINE f == CHOOSE f \in Present(applying.copy) : TRUE
      <4>1. applying = [copy |-> applying.copy, todo |-> {}] /\ applying.copy \in Contents
        BY <1>0, <1>1 DEF EndApply
      <4>2. Present(applying.copy) # {} /\ Present(applying.copy) \subseteq File
        BY <1>1, <4>1, ContentsFacts DEF EndApply, NoApply
      <4>3. {f} \in SUBSET File
        BY <4>2
      <4>4. stores' = stores \cup {Store("apply", g) : g \in {f}}
        BY <1>1, <3>2 DEF EndApply
      <4> HIDE DEF f
      <4> QED BY <4>3, <4>4, NewStore
    <3> QED BY <3>1, <3>2
  <2> QED BY <1>1, <2>1, <2>2, Unmoved DEF EndApply
<1>2. ASSUME NEW f \in File, ApplyFile(f) PROVE TypeInv'
  <2>1. applying' = [applying EXCEPT !.todo = applying.todo \ {f}] /\ UNCHANGED deleting
    BY <1>2 DEF ApplyFile
  <2>2. CommandType'
    BY <1>0, <2>1 DEF CommandType
  <2>3. DataType'
    <3>1. applying.copy[f] \in Nat /\ left.commands \in Nat
      BY <1>0, ContentsFacts DEF DataType, Bounds
    <3>2. PICK tick \in {0, 1} : vault' = [vault EXCEPT ![f] = Written(applying.copy[f], tick)]
      BY <1>2 DEF ApplyFile
    <3>3. Written(applying.copy[f], tick) \in Nat
      BY <3>1 DEF Written, Content
    <3>4. vault' \in Contents /\ UNCHANGED <<left, docs>>
      BY <1>2, <3>2, <3>3, ContentsFacts DEF ApplyFile, DataType
    <3> QED BY <3>4 DEF DataType, docs, Contents
  <2>4. StoreType' /\ InputType'
    <3>1. CASE UNCHANGED <<stores, input>>
      BY <3>1, Unmoved
    <3>2. CASE /\ stores' = IF setup.v2 THEN stores \cup {Store("apply", f)} ELSE stores
               /\ Touched(f) /\ UNCHANGED task
      <4>1. {f} \in SUBSET File /\ {Store("apply", f)} = {Store("apply", g) : g \in {f}}
        OBVIOUS
      <4>2. StoreType'
        BY <3>2, <4>1, NewStore, FewerStores
      <4>3. InputType'
        BY <3>2 DEF Touched, Raise, InputType
      <4> QED BY <4>2, <4>3
    <3> QED BY <1>2, <3>1, <3>2 DEF ApplyFile
  <2> QED BY <1>2, <2>2, <2>3, <2>4, Unmoved DEF ApplyFile
<1>3. CASE EndDelete
  <2>1. CommandType'
    BY <1>0, <1>3 DEF EndDelete, CommandType, NoDelete
  <2>2. DisplayType'
    BY <1>3, UpdateListType DEF EndDelete
  <2> QED BY <1>3, <2>1, <2>2, Unmoved DEF EndDelete
<1>4. ASSUME NEW k \in Key, DeleteDocument(k) PROVE TypeInv'
  <2>1. deleting.todo # {} /\ deleting' = [deleting EXCEPT !.todo = deleting.todo \ {k}] /\ UNCHANGED applying
    BY <1>4 DEF DeleteDocument
  <2>2. deleting.term \in Term
    BY <1>0, <2>1 DEF NoDelete
  <2>3. CommandType'
    BY <1>0, <2>1, <2>2 DEF CommandType
  <2>4. DataType'
    BY <1>4, <2>2, DeleteType DEF DeleteDocument
  <2> QED BY <1>4, <2>3, <2>4, Unmoved DEF DeleteDocument
<1> QED BY <1>1, <1>2, <1>3, <1>4 DEF Dialogue

LEMMA WorldType ==
    ASSUME TypeInv, UNCHANGED setup, World
    PROVE  TypeInv'
<1> USE DEF TypeInv
<1> DEFINE Applies == [copy : Contents, todo : SUBSET File]
           Deletes == [term : Term \cup {None}, todo : SUBSET Key]
<1>0. applying \in Applies /\ applying.todo \subseteq Present(applying.copy)
      /\ deleting \in Deletes /\ (deleting # NoDelete => deleting.term \in Term)
  BY DEF CommandType
<1>1. CASE Kill
  <2>1. DataType'
    BY <1>1, SpendType DEF Kill, Bounds, docs
  <2>2. InputType' /\ StoreType' /\ ScanType'
    BY <1>1 DEF Kill, InputType, StoreType, ScanType, NoScan
  <2>3. DisplayType'
    BY <1>1 DEF Kill, DisplayType, DisplayOK
  <2>4. MigrateType'
    BY <1>1, ContentsFacts DEF Kill, MigrateType, NoMigration
  <2>5. CommandType'
    BY <1>1, ContentsFacts DEF Kill, CommandType, NoApply, NoDelete
  <2> QED BY <2>1, <2>2, <2>3, <2>4, <2>5
<1>2. CASE Apply
  <2> DEFINE copy == IF setup.v2 THEN Shown(Theirs) ELSE v1[Theirs]
  <2>1. copy \in Contents
    BY <1>2 DEF Apply, Shown, DisplayType, DisplayOK, DataType, Term
  <2>2. applying' = [copy |-> copy, todo |-> Present(copy)] /\ UNCHANGED deleting
    BY <1>2 DEF Apply
  <2> HIDE DEF copy
  <2>3. CommandType'
    BY <1>0, <2>1, <2>2, ContentsFacts DEF CommandType
  <2>4. DataType'
    BY <1>2, SpendType DEF Apply, Bounds
  <2> QED BY <1>2, <2>3, <2>4, Unmoved DEF Apply
<1>3. ASSUME NEW f \in File, Edit(f) PROVE TypeInv'
  <2>1. /\ left' \in [Bounds -> Nat] /\ \A c \in Bounds : left'[c] <= setup[c]
        /\ left["edits"] \in Nat /\ setup.edits \in Nat /\ left["edits"] <= setup.edits
    BY <1>3, SpendFacts DEF Edit, Bounds
  <2>2. 11 + setup.edits - left.edits \in Nat
    BY <2>1
  <2>3. vault' \in Contents
    BY <1>3, <2>2, ContentsFacts DEF Edit, DataType
  <2>4. DataType'
    BY <1>3, <2>1, <2>3 DEF Edit, DataType, docs, Contents
  <2>5. InputType'
    BY <1>3 DEF Edit, Touched, Raise, InputType
  <2> QED BY <1>3, <2>4, <2>5, Unmoved DEF Edit
<1>4. ASSUME NEW f \in File, Remove(f) PROVE TypeInv'
  <2>1. left' \in [Bounds -> Nat] /\ \A c \in Bounds : left'[c] <= setup[c]
    BY <1>4, SpendFacts DEF Remove, Bounds
  <2>2. vault' \in Contents
    BY <1>4, ContentsFacts DEF Remove, DataType
  <2>3. DataType'
    BY <1>4, <2>1, <2>2 DEF Remove, DataType, docs, Contents
  <2>4. InputType'
    BY <1>4 DEF Remove, Touched, Raise, InputType
  <2> QED BY <1>4, <2>3, <2>4, Unmoved DEF Remove
<1>5. ASSUME NEW f \in File, FailApply(f) PROVE TypeInv'
  <2>1. applying' = NoApply \/ applying' = [applying EXCEPT !.todo = applying.todo \ {f}]
    BY <1>5 DEF FailApply
  <2>2. CommandType'
    BY <1>0, <1>5, <2>1, ContentsFacts DEF FailApply, CommandType, NoApply
  <2>3. DataType'
    BY <1>5, SpendType DEF FailApply, Bounds
  <2> QED BY <1>5, <2>2, <2>3, Unmoved DEF FailApply
<1>6. ASSUME NEW t \in Term, Delete(t) PROVE TypeInv'
  <2> DEFINE todo == {Whole} \cup IF setup.v2 THEN Present(Shown(t)) ELSE {}
  <2>1. Shown(t) \in Contents
    BY <1>6 DEF Delete, Shown, DisplayType, DisplayOK
  <2>2. todo \in SUBSET Key
    BY <2>1, ContentsFacts DEF Key
  <2>3. deleting' = [term |-> t, todo |-> todo] /\ UNCHANGED applying
    BY <1>6 DEF Delete
  <2> HIDE DEF todo
  <2>4. CommandType'
    BY <1>0, <2>2, <2>3 DEF CommandType
  <2>5. DataType'
    BY <1>6, SpendType DEF Delete, Bounds
  <2> QED BY <1>6, <2>4, <2>5, Unmoved DEF Delete
<1>7. ASSUME NEW t \in Term, NEW k \in Key, Arrive(t, k) PROVE TypeInv'
  <2> DEFINE n == 21 + setup.arrivals - left.arrivals
  <2>1. /\ left' \in [Bounds -> Nat] /\ \A c \in Bounds : left'[c] <= setup[c]
        /\ left["arrivals"] \in Nat /\ setup.arrivals \in Nat /\ left["arrivals"] <= setup.arrivals
    BY <1>7, SpendFacts DEF Arrive, Bounds
  <2>2. n \in Nat
    BY <2>1
  <2>3. \/ DeleteConfig(t, k)
        \/ k # Whole /\ v2' = [v2 EXCEPT ![t][k] = n] /\ UNCHANGED v1
        \/ v1' = [v1 EXCEPT ![t] = [f \in File |-> n]] /\ UNCHANGED v2
    BY <1>7 DEF Arrive
  <2> HIDE DEF n
  <2>4. v1' \in [Term -> Contents] /\ v2' \in [Term -> Contents]
    <3>1. CASE DeleteConfig(t, k)
      <4>1. CASE k = Whole
        BY <3>1, <4>1, ContentsFacts DEF DeleteConfig, DataType
      <4>2. CASE k # Whole
        <5>1. k \in File /\ v2' = [v2 EXCEPT ![t][k] = 0] /\ v1' = v1
          BY <3>1, <4>2 DEF DeleteConfig, Key
        <5> QED BY <5>1, DataSet DEF DataType
      <4> QED BY <4>1, <4>2
    <3>2. CASE k # Whole /\ v2' = [v2 EXCEPT ![t][k] = n] /\ UNCHANGED v1
      BY <3>2, <2>2, DataSet DEF DataType, Key
    <3>3. CASE v1' = [v1 EXCEPT ![t] = [f \in File |-> n]] /\ UNCHANGED v2
      <4>1. [f \in File |-> n] \in Contents
        BY <2>2 DEF Contents
      <4> QED BY <3>3, <4>1 DEF DataType
    <3> QED BY <2>3, <3>1, <3>2, <3>3
  <2>5. DataType'
    BY <1>7, <2>1, <2>4 DEF Arrive, DataType, Contents
  <2>6. DisplayType'
    BY <1>7, UpdatedType DEF Arrive
  <2> QED BY <1>7, <2>5, <2>6, Unmoved DEF Arrive
<1>8. ASSUME NEW r \in stores, FailStore(r) PROVE TypeInv'
  <2>1. StoreType'
    BY <1>8, FewerStores DEF FailStore
  <2>2. ScanType'
    BY <1>8 DEF FailStore, ScanType, NoScan
  <2>3. DataType'
    BY <1>8, SpendType DEF FailStore, Bounds
  <2> QED BY <1>8, <2>1, <2>2, <2>3, Unmoved DEF FailStore
<1>9. ASSUME NEW f \in File, RejectEvent(f) PROVE TypeInv'
  <2>1. InputType'
    BY <1>9 DEF RejectEvent, InputType
  <2>2. DataType'
    BY <1>9, SpendType DEF RejectEvent, Bounds
  <2> QED BY <1>9, <2>1, <2>2, Unmoved DEF RejectEvent
<1> QED BY <1>1, <1>2, <1>3, <1>4, <1>5, <1>6, <1>7, <1>8, <1>9 DEF World

LEMMA InitType == Init => TypeInv
<1> SUFFICES ASSUME Init PROVE TypeInv
  OBVIOUS
<1>1. IsSetup(setup) /\ setup \in Setups
  BY CustomisationAssumption DEF Init
<1>2. left \in [Bounds -> Nat] /\ \A b \in Bounds : left[b] <= setup[b]
  BY <1>1 DEF Init, IsSetup
<1>3. vault \in Contents /\ v1 \in [Term -> Contents] /\ v2 \in [Term -> Contents]
  <2>1. \A t \in Term : [f \in File |-> IF t = Mine THEN 1 ELSE 2] \in Contents
    BY DEF Contents
  <2>2. vault \in Contents
    BY DEF Init, Contents
  <2> QED BY <2>1, <2>2, ContentsFacts DEF Init
<1>4. DataType
  BY <1>1, <1>2, <1>3 DEF DataType
<1>5. InputType /\ StoreType /\ ScanType
  BY DEF Init, InputType, StoreType, ScanType, NoScan
<1>6. DisplayType
  BY DEF Init, DisplayType, DisplayOK
<1>7. MigrateType
  BY ContentsFacts DEF Init, MigrateType, NoMigration
<1>8. CommandType
  BY ContentsFacts DEF Init, CommandType, NoApply, NoDelete
<1> QED BY <1>4, <1>5, <1>6, <1>7, <1>8 DEF TypeInv

LEMMA TypeStep == TypeInv /\ [Next]_vars => TypeInv'
<1> SUFFICES ASSUME TypeInv, [Next]_vars PROVE TypeInv'
  OBVIOUS
<1>1. CASE UNCHANGED vars
  BY <1>1, Unmoved DEF vars, TypeInv, commands
<1>2. CASE Next
  <2>1. UNCHANGED setup
    BY <1>2 DEF Next
  <2>2. ASSUME NEW r \in loading, Loaded(r) PROVE TypeInv'
    <3>1. DisplayType'
      BY <2>2, LoadedType
    <3> QED BY <2>1, <2>2, <3>1, Unmoved DEF Loaded, TypeInv
  <2>3. ASSUME NEW t \in Term, ListWhole(t) PROVE TypeInv'
    <3>1. DisplayType'
      BY <2>3, ListWholeType
    <3> QED BY <2>1, <2>3, <3>1, Unmoved DEF ListWhole, TypeInv
  <2> QED BY <1>2, <2>1, <2>2, <2>3, StoringType, ScanningType, MigratingType, DialogueType, WorldType
          DEF Next, Program, Loading
<1> QED BY <1>1, <1>2

LEMMA TypeHolds == Spec => []TypeInv
BY InitType, TypeStep, PTL DEF Spec

\* Every part of the state keeps its type: what an entry of the list shows is there as
\* long as the list or a load names it, a migration or an application without anything
\* left is over, and a store reads files of its document only.
THEOREM TypeCorrect == Spec => []TypeOK
<1>1. TypeInv => TypeOK
  BY DEF TypeInv, DataType, InputType, StoreType, ScanType, DisplayType, DisplayOK, MigrateType, CommandType, TypeOK
<1> QED BY <1>1, TypeHolds, PTL
-----------------------------------------------------------------------------
(* Events suffice. *)

\* Nothing but stores changes the documents.
Undisturbed ==
    /\ left.fails = 0 /\ left.arrivals = 0 /\ left.commands = 0 /\ left.suspensions = 0
    /\ v2[Mine] = Nothing /\ scan.drop = {} /\ migrating = [t \in Term |-> NoMigration]
    /\ applying = NoApply /\ deleting = NoDelete

\* One file was removed at most, and no event that is still to be handled is passed over.
Heard ==
    /\ left.deletions <= 1
    /\ \A f \in File : vault[f] = 0 \/ <<f, FALSE>> \in recent => left.deletions = 0
    /\ \A f, g \in File : vault[f] = 0 /\ vault[g] = 0 => f = g
    /\ \A f \in File : vault[f] = 0 => setup.deletions # 0
    /\ \A f \in events : /\ vault[f] = 0 => <<f, FALSE>> \notin recent
                         /\ vault[f] # 0 => <<f, TRUE>> \notin recent

\* A store that has read nothing yet will read the files as they are.
Pending == events # {} \/ task # None \/ scan.at \in {"due", "list"} \/ \E r \in stores : r.got = <<>>

\* One store has the lock of the document.  Unless a store is still to begin, what it has
\* read is what the files contain, or nothing runs and the document passes for what they contain.
Gathered ==
    /\ scan.at = "list" => scan.found # {}
    /\ \A r, q \in stores : r.got # <<>> /\ q.got # <<>> => r = q
    /\ \/ Pending
       \/ \E r \in stores : \A f \in DOMAIN r.got : r.got[f] = vault[f]
       \/ stores = {} /\ Stored

EventInv == Undisturbed /\ Heard /\ Gathered

LEMMA Still ==
    /\ Undisturbed /\ UNCHANGED <<left, docs, migrating, commands>> /\ scan'.drop = {} => Undisturbed'
    /\ Heard /\ UNCHANGED <<setup, outside, input>> => Heard'
    /\ UNCHANGED <<vault, docs>> => Stored' = Stored
<1>1. Undisturbed /\ UNCHANGED <<left, docs, migrating, commands>> /\ scan'.drop = {} => Undisturbed'
  BY DEF Undisturbed, docs, commands, NoApply, NoDelete, NoMigration, Nothing
<1>2. Heard /\ UNCHANGED <<setup, outside, input>> => Heard'
  BY DEF Heard, outside, input
<1>3. UNCHANGED <<vault, docs>> => Stored' = Stored
  BY DEF Stored, Same, Present, docs
<1> QED BY <1>1, <1>2, <1>3

\* The one removal leaves a file.
LEMMA SomethingThere ==
    ASSUME EventsAreSeen, Heard, DataType
    PROVE  Present(vault) # {}
BY SetupFacts DEF EventsAreSeen, Heard, Present

LEMMA EventInit ==
    ASSUME Init, TypeInv, EventsAreSeen
    PROVE  EventInv
<1>1. Undisturbed
  BY DEF Init, EventsAreSeen, Undisturbed, Bounds, NoScan, Term
<1>2. Heard
  <2>1. \A f \in File : vault[f] = 1
    BY DEF Init, EventsAreSeen
  <2>2. left.deletions <= 1 /\ events = {} /\ recent = {}
    BY DEF Init, EventsAreSeen, Bounds
  <2> QED BY <2>1, <2>2 DEF Heard
<1>3. Gathered
  BY DEF Init, NoScan, Gathered, Pending
<1> QED BY <1>1, <1>2, <1>3 DEF EventInv

LEMMA EventStoring ==
    ASSUME TypeInv, EventsAreSeen, EventInv, UNCHANGED setup, Storing
    PROVE  EventInv'
<1>0. ~setup.v2 /\ DataType /\ StoreType /\ InputType /\ Undisturbed /\ Heard /\ Gathered
  BY DEF EventsAreSeen, TypeInv, EventInv
<1>1. ASSUME NEW r \in stores, NEW f \in File, Read(r, f) PROVE EventInv'
  <2> DEFINE q == [r EXCEPT !.got = With(r.got, {f}, vault[f])]
  <2>1. /\ stores' = (stores \ {r}) \cup {q} /\ (r.got = <<>> => ~Locked(r))
        /\ UNCHANGED <<outside, docs, input, scan, display, migrating, commands>>
    BY <1>0, <1>1 DEF Read
  <2>2. r = [by |-> r.by, file |-> r.file, got |-> r.got]
    BY <1>0 DEF StoreType
  <2>3. q.got = [g \in DOMAIN r.got \cup {f} |-> IF g \in {f} THEN vault[f] ELSE r.got[g]]
    BY <2>2 DEF With
  <2> HIDE DEF q
  <2>4. q.got # <<>>
    <3>1. f \in DOMAIN q.got
      BY <2>3
    <3>2. DOMAIN <<>> = {}
      OBVIOUS
    <3> QED BY <3>1, <3>2
  <2>5. Undisturbed' /\ Heard'
    <3>1. scan'.drop = {} /\ UNCHANGED <<left, outside>>
      BY <1>0, <2>1 DEF Undisturbed, outside
    <3> QED BY <1>0, <2>1, <3>1, Still
  <2>6. \A p \in stores \ {r} : p.got = <<>>
    <3>1. CASE r.got = <<>>
      BY <1>0, <2>1, <3>1 DEF Locked
    <3>2. CASE r.got # <<>>
      BY <1>0, <3>2 DEF Gathered
    <3> QED BY <3>1, <3>2
  <2>7. (\A g \in DOMAIN r.got : r.got[g] = vault[g]) => \A g \in DOMAIN q.got : q.got[g] = vault[g]
    BY <2>3
  <2>8. \A g \in DOMAIN r.got : r.got = <<>> => r.got[g] = vault[g]
    <3>1. DOMAIN <<>> = {}
      OBVIOUS
    <3> QED BY <3>1
  <2>9. Pending' \/ \A g \in DOMAIN r.got : r.got[g] = vault[g]
    <3>1. CASE events # {} \/ task # None \/ scan.at \in {"due", "list"} \/ \E p \in stores \ {r} : p.got = <<>>
      BY <2>1, <3>1 DEF Pending, input
    <3>2. CASE r.got = <<>>
      BY <2>8, <3>2
    <3>3. CASE ~Pending /\ r.got # <<>>
      <4>1. PICK p \in stores : \A g \in DOMAIN p.got : p.got[g] = vault[g]
        BY <1>0, <3>3 DEF Gathered
      <4>2. p = r
        BY <2>6, <3>3, <4>1 DEF Pending
      <4> QED BY <4>1, <4>2
    <3> QED BY <3>1, <3>2, <3>3 DEF Pending
  <2>10. Gathered'
    <3>1. vault' = vault /\ scan' = scan
      BY <2>1 DEF outside
    <3>2. q \in stores'
      BY <2>1
    <3>3. Pending' \/ \E p \in stores' : \A g \in DOMAIN p.got : p.got[g] = vault'[g]
      BY <2>7, <2>9, <3>1, <3>2
    <3>4. \A p, o \in stores' : p.got # <<>> /\ o.got # <<>> => p = o
      BY <2>1, <2>6
    <3> QED BY <1>0, <3>1, <3>3, <3>4 DEF Gathered
  <2> QED BY <2>5, <2>10 DEF EventInv
<1>2. ASSUME NEW r \in stores, Put(r) PROVE EventInv'
  <2>1. /\ DOMAIN r.got = File /\ stores' = stores \ {r} /\ v2' = v2
        /\ v1' = IF Skipped(r.got) THEN v1 ELSE [v1 EXCEPT ![Mine] = r.got]
        /\ UNCHANGED <<outside, input, scan, migrating, commands>>
    BY <1>0, <1>2 DEF Put, Targets
  <2>2. Undisturbed' /\ Heard'
    BY <1>0, <2>1, Still DEF Undisturbed, outside, commands
  <2>3. r.got # <<>>
    <3>1. DOMAIN <<>> = {} /\ File # {}
      BY <1>0, SetupFacts
    <3> QED BY <2>1, <3>1
  <2>4. CASE Pending
    <3>1. Pending'
      BY <2>1, <2>3, <2>4 DEF Pending, input
    <3> QED BY <1>0, <2>1, <2>2, <3>1 DEF EventInv, Gathered
  <2>5. CASE ~Pending
    <3>1. \A p \in stores : p = r
      BY <1>0, <2>3, <2>5 DEF Pending, Gathered
    <3>2. \A f \in File : r.got[f] = vault[f]
      BY <1>0, <2>1, <2>5, <3>1 DEF Gathered
    <3>3. r.got = vault
      <4>1. r.got \in [File -> Nat] /\ vault \in [File -> Nat]
        BY <1>0, <2>1 DEF StoreType, DataType, Contents
      <4> QED BY <3>2, <4>1
    <3>4. vault' = vault /\ stores' = {}
      BY <2>1, <3>1 DEF outside
    <3>5. Stored'
      <4>1. CASE Skipped(r.got)
        <5>1. Stored
          BY <3>3, <4>1 DEF Skipped, Stored
        <5> QED BY <2>1, <3>4, <4>1, <5>1, Still DEF docs
      <4>2. CASE ~Skipped(r.got)
        <5>1. v1'[Mine] = vault'
          BY <1>0, <2>1, <3>3, <3>4, <4>2 DEF DataType, Term
        <5> QED BY <5>1 DEF Stored, Same
      <4> QED BY <4>1, <4>2
    <3> QED BY <1>0, <2>1, <2>2, <3>4, <3>5 DEF EventInv, Gathered
  <2> QED BY <2>4, <2>5
<1>3. CASE TaskFires
  <2>1. stores' = stores \cup {Store("event", task)} /\ Store("event", task).got = <<>>
    BY <1>3 DEF TaskFires, Store
  <2>2. UNCHANGED <<outside, docs, events, recent, scan, display, migrating, commands>>
    BY <1>3 DEF TaskFires
  <2>3. Undisturbed'
    BY <1>0, <2>2, Still DEF Undisturbed, outside
  <2>4. Heard'
    BY <1>0, <2>2 DEF Heard, outside
  <2>5. Pending'
    BY <2>1 DEF Pending
  <2> QED BY <1>0, <2>1, <2>2, <2>3, <2>4, <2>5 DEF EventInv, Gathered
<1>4. ASSUME NEW f \in File, WatchVaultRawEvents(f) PROVE EventInv'
  <2> DEFINE there == vault[f] # 0
  <2>1. /\ f \in events /\ events' = events \ {f} /\ recent' = recent \cup {<<f, there>>}
        /\ task' = IF <<f, there>> \in recent THEN task ELSE f
        /\ UNCHANGED <<outside, docs, stores, scan, display, migrating, commands>>
    BY <1>4 DEF WatchVaultRawEvents
  <2>2. there \in BOOLEAN /\ (there <=> vault[f] # 0)
    OBVIOUS
  <2> HIDE DEF there
  <2>3. <<f, there>> \notin recent
    <3>1. CASE there = TRUE
      BY <1>0, <2>1, <2>2, <3>1 DEF Heard
    <3>2. CASE there = FALSE
      BY <1>0, <2>1, <2>2, <3>2 DEF Heard
    <3> QED BY <2>2, <3>1, <3>2
  <2>4. Undisturbed'
    BY <1>0, <2>1, Still DEF Undisturbed, outside
  <2>5. Heard'
    <3>1. left' = left /\ vault' = vault
      BY <2>1 DEF outside
    <3>2. \A g \in File : <<g, FALSE>> \in recent' => <<g, FALSE>> \in recent \/ vault[g] = 0
      <4> SUFFICES ASSUME NEW g \in File, <<g, FALSE>> = <<f, there>> PROVE vault[g] = 0
        BY <2>1
      <4> QED BY <2>2
    <3>3. \A g \in events' : \A b \in BOOLEAN : <<g, b>> \in recent' => <<g, b>> \in recent
      BY <2>1
    <3>4. events' \subseteq events
      BY <2>1
    <3> QED BY <1>0, <3>1, <3>2, <3>3, <3>4 DEF Heard
  <2>6. Pending'
    <3>1. task' = f /\ f # None
      BY <1>0, <2>1, <2>3, SetupFacts
    <3> QED BY <3>1 DEF Pending
  <2> QED BY <1>0, <2>1, <2>4, <2>5, <2>6 DEF EventInv, Gathered
<1> QED BY <1>1, <1>2, <1>3, <1>4 DEF Storing

LEMMA EventScanning ==
    ASSUME TypeInv, EventsAreSeen, EventInv, UNCHANGED setup, BeginScan \/ Scanning
    PROVE  EventInv'
<1>0. ~setup.v2 /\ DataType /\ StoreType /\ Undisturbed /\ Heard /\ Gathered /\ scan \in [at : {"idle", "due", "list", "delete", "store"}, found : SUBSET File, drop : SUBSET Key]
  BY DEF EventsAreSeen, TypeInv, EventInv, ScanType
<1>1. CASE BeginScan
  <2>1. scan' = [at |-> "list", found |-> Present(vault), drop |-> {}]
    BY <1>1 DEF BeginScan, NoScan
  <2>2. Undisturbed' /\ Heard'
    <3>1. scan'.drop = {}
      BY <2>1
    <3>2. UNCHANGED <<outside, docs, input, stores, migrating, commands>>
      BY <1>1 DEF BeginScan
    <3>3. UNCHANGED left
      BY <3>2 DEF outside
    <3> QED BY <1>0, <3>1, <3>2, <3>3, Still
  <2>3. Present(vault) # {}
    BY <1>0, SomethingThere
  <2>4. Gathered'
    BY <1>0, <1>1, <2>1, <2>3 DEF BeginScan, Gathered, Pending
  <2> QED BY <2>2, <2>4 DEF EventInv
<1>2. CASE ListDocuments
  <2>1. scan.at = "list" /\ scan.found # {}
    BY <1>0, <1>2 DEF ListDocuments, Gathered
  <2>2. Present(v2[Mine]) = {}
    BY <1>0 DEF Undisturbed, Present, Nothing
  <2>3. scan' = [scan EXCEPT !.at = "store", !.drop = {}]
    BY <1>0, <1>2, <2>1, <2>2 DEF ListDocuments
  <2>4. Undisturbed' /\ Heard'
    BY <1>0, <1>2, <2>3, Still DEF ListDocuments, outside
  <2>5. PICK p : p.got = <<>> /\ stores' = stores \cup {p}
    <3> DEFINE p == Store("scan", CHOOSE f \in scan.found : TRUE)
    <3>1. p.got = <<>> /\ stores' = stores \cup {p}
      BY <1>0, <1>2, <2>1 DEF ListDocuments, Store
    <3> QED BY <3>1
  <2>6. Pending'
    BY <2>5 DEF Pending
  <2> QED BY <1>0, <2>3, <2>4, <2>5, <2>6 DEF EventInv, Gathered
<1>3. CASE ScanStored \/ EndScan
  <2>1. scan.at \in {"store", "delete"} /\ scan'.at \in {"delete", "idle"} /\ scan'.drop = {}
    BY <1>0, <1>3 DEF ScanStored, EndScan, NoScan, Undisturbed
  <2>2. UNCHANGED <<outside, docs, input, stores, migrating, commands>>
    BY <1>3 DEF ScanStored, EndScan
  <2>3. Undisturbed' /\ Heard'
    BY <1>0, <2>1, <2>2, Still DEF outside
  <2>4. Gathered'
    BY <1>0, <2>1, <2>2, Still DEF Gathered, Pending, outside, docs, input
  <2> QED BY <2>3, <2>4 DEF EventInv
<1>4. ~ScanStoresFiles /\ \A k \in Key : ~ScanDeletes(k)
  BY <1>0 DEF ScanStoresFiles, ScanDeletes, Undisturbed
<1> QED BY <1>1, <1>2, <1>3, <1>4 DEF Scanning

LEMMA EventWorld ==
    ASSUME TypeInv, EventsAreSeen, EventInv, UNCHANGED setup, World
    PROVE  EventInv'
<1>0. DataType /\ Undisturbed /\ Heard /\ Gathered /\ setup.watch /\ ~setup.same
  BY DEF EventsAreSeen, TypeInv, EventInv
<1>1. CASE Kill
  <2>1. left'.fails = left.fails /\ left'.arrivals = left.arrivals /\ left'.commands = left.commands
        /\ left'.suspensions = left.suspensions
        /\ left'.deletions = left.deletions
    BY <1>0, <1>1 DEF Kill, Spend, DataType, Bounds
  <2>2. Undisturbed'
    BY <1>0, <1>1, <2>1 DEF Kill, Undisturbed, docs, NoScan, NoMigration, Nothing, NoApply, NoDelete
  <2>3. Heard'
    BY <1>0, <1>1, <2>1 DEF Kill, Heard
  <2>4. Gathered'
    BY <1>1 DEF Kill, Gathered, Pending, NoScan
  <2> QED BY <2>2, <2>3, <2>4 DEF EventInv
<1>2. ASSUME NEW f \in File, Edit(f) \/ Remove(f) PROVE EventInv'
  <2>1. events' = events \cup {f} /\ recent' = recent \ {<<f, TRUE>>}
    BY <1>0, <1>2 DEF Edit, Remove, Touched, Raise
  <2>2. UNCHANGED <<docs, task, stores, scan, display, migrating, commands>>
    BY <1>2 DEF Edit, Remove
  <2>3. left'.fails = left.fails /\ left'.arrivals = left.arrivals /\ left'.commands = left.commands
        /\ left'.suspensions = left.suspensions
    BY <1>0, <1>2 DEF Edit, Remove, Spend, DataType, Bounds
  <2>4. Undisturbed'
    BY <1>0, <2>2, <2>3 DEF Undisturbed, docs, commands, NoMigration, Nothing, NoApply, NoDelete
  <2>5. Gathered'
    BY <1>0, <2>1, <2>2 DEF Gathered, Pending
  <2>6. CASE Edit(f)
    <3>1. left'.deletions = left.deletions
      BY <1>0, <2>6 DEF Edit, Spend, DataType, Bounds
    <3>2. vault' = [vault EXCEPT ![f] = 11 + setup.edits - left.edits]
      BY <2>6 DEF Edit
    <3>3. 11 + setup.edits - left.edits # 0
      <4>1. left["edits"] \in Nat /\ setup.edits \in Nat /\ left["edits"] <= setup.edits
        BY <1>0, <2>6, SpendFacts DEF Edit, Bounds
      <4> QED BY <4>1
    <3>4. \A g \in File : vault'[g] = IF g = f THEN 11 + setup.edits - left.edits ELSE vault[g]
      BY <1>0, <3>2 DEF DataType, Contents
    <3>5. \A g \in File : vault'[g] = 0 => g # f /\ vault[g] = 0
      BY <3>3, <3>4
    <3>6. \A g \in events' : g # f => g \in events /\ (vault'[g] = 0 <=> vault[g] = 0)
      BY <2>1, <3>4 DEF TypeInv, InputType
    <3>7. \A g \in File : <<g, FALSE>> \in recent' => <<g, FALSE>> \in recent
      BY <2>1
    <3>8. \A g \in events' : /\ vault'[g] = 0 => <<g, FALSE>> \notin recent'
                             /\ vault'[g] # 0 => <<g, TRUE>> \notin recent'
      <4> SUFFICES ASSUME NEW g \in events' PROVE /\ vault'[g] = 0 => <<g, FALSE>> \notin recent'
                                                  /\ vault'[g] # 0 => <<g, TRUE>> \notin recent'
        OBVIOUS
      <4>1. CASE g = f
        BY <2>1, <3>3, <3>4, <4>1
      <4>2. CASE g # f
        BY <1>0, <2>1, <3>6, <4>2 DEF Heard
      <4> QED BY <4>1, <4>2
    <3>9. Heard'
      BY <1>0, <3>1, <3>5, <3>7, <3>8 DEF Heard
    <3> QED BY <2>4, <2>5, <3>9 DEF EventInv
  <2>7. CASE Remove(f)
    <3>1. left.deletions = 1 /\ left'.deletions = 0
      <4>1. left["deletions"] \in Nat \ {0} /\ left'["deletions"] = left["deletions"] - 1
        BY <1>0, <2>7, SpendFacts DEF Remove, Bounds
      <4> QED BY <1>0, <4>1 DEF Heard
    <3>2. \A g \in File : vault[g] # 0 /\ <<g, FALSE>> \notin recent
      <4>1. \A g \in File : vault[g] = 0 \/ <<g, FALSE>> \in recent => left.deletions = 0
        BY <1>0 DEF Heard
      <4>2. left.deletions # 0
        BY <3>1
      <4> QED BY <4>1, <4>2
    <3>3. \A g \in File : vault'[g] = IF g = f THEN 0 ELSE vault[g]
      BY <1>0, <2>7 DEF Remove, DataType, Contents
    <3>4. \A g \in events' : g \in File /\ (g # f => g \in events)
      BY <2>1 DEF TypeInv, InputType
    <3>5. \A g \in events' : /\ vault'[g] = 0 => <<g, FALSE>> \notin recent'
                             /\ vault'[g] # 0 => <<g, TRUE>> \notin recent'
      BY <1>0, <2>1, <3>2, <3>3, <3>4 DEF Heard
    <3>6. Heard'
      <4>1. \A g, h \in File : vault'[g] = 0 /\ vault'[h] = 0 => g = h
        BY <3>2, <3>3
      <4>2. left'.deletions <= 1 /\ \A g \in File : vault'[g] = 0 \/ <<g, FALSE>> \in recent' => left'.deletions = 0
        BY <3>1
      <4>3. setup.deletions # 0
        <5>1. left["deletions"] <= setup["deletions"] /\ setup["deletions"] \in Nat
          BY <1>0, SetupFacts DEF DataType, Bounds
        <5> QED BY <3>1, <5>1
      <4> QED BY <3>5, <4>1, <4>2, <4>3 DEF Heard
    <3> QED BY <2>4, <2>5, <3>6 DEF EventInv
  <2> QED BY <1>2, <2>6, <2>7
<1>3. ~Apply /\ (\A t \in Term : ~Delete(t) /\ \A k \in Key : ~Arrive(t, k))
      /\ (\A r \in stores : ~FailStore(r)) /\ \A f \in File : ~FailApply(f) /\ ~RejectEvent(f)
  BY <1>0 DEF Undisturbed, Apply, Delete, Arrive, FailStore, FailApply, RejectEvent, Spend
<1> QED BY <1>1, <1>2, <1>3 DEF World

LEMMA EventStep ==
    ASSUME TypeInv, EventsAreSeen, EventInv, Next
    PROVE  EventInv'
<1>0. UNCHANGED setup /\ ~setup.v2 /\ Undisturbed /\ Heard /\ Gathered
  BY DEF Next, EventsAreSeen, EventInv
<1>1. ASSUME UNCHANGED <<outside, docs, input, stores, scan, migrating, commands>> PROVE EventInv'
  <2>1. Undisturbed' /\ Heard'
    BY <1>0, <1>1, Still DEF Undisturbed, outside
  <2>2. Gathered'
    BY <1>0, <1>1, Still DEF Gathered, Pending, outside, docs, input
  <2> QED BY <2>1, <2>2 DEF EventInv
<1>2. Loading \/ (\E t \in Term : ListWhole(t)) => EventInv'
  BY <1>1 DEF Loading, Loaded, ListWhole
<1>3. ~Migrating
  BY <1>0 DEF Undisturbed, Migrating, Migrate, MigrateDrops, MigrateFile, NoMigration
<1>4. ~Dialogue
  BY <1>0 DEF Undisturbed, Dialogue, EndApply, ApplyFile, EndDelete, DeleteDocument, NoApply, NoDelete
<1> QED BY <1>0, <1>2, <1>3, <1>4, EventStoring, EventScanning, EventWorld DEF Next, Program

\* The document of a plug-in becomes what its files contain, up to a document of the same
\* average mtime, by the events alone.  What a store has read may be stale, but then an event, a scheduled
\* store, or a store or scan still to begin will read the files again after it, as the
\* lock lets one store read at a time.
THEOREM EventsGather == Spec => []EventsSuffice
<1> DEFINE Inv == EventsAreSeen => EventInv
<1>1. Init => Inv
  BY InitType, EventInit
<1>2. TypeInv /\ Inv /\ [Next]_vars => Inv'
  <2> SUFFICES ASSUME TypeInv, Inv, [Next]_vars, EventsAreSeen' PROVE EventInv'
    OBVIOUS
  <2>1. setup' = setup
    BY DEF Next, vars
  <2>2. EventsAreSeen
    BY <2>1 DEF EventsAreSeen
  <2>3. CASE Next
    BY <2>2, <2>3, EventStep
  <2>4. CASE UNCHANGED vars
    <3>1. EventInv /\ UNCHANGED <<setup, outside, docs, input, stores, scan, migrating, commands>>
      BY <2>2, <2>4 DEF vars
    <3>2. Undisturbed' /\ Heard'
      BY <3>1, Still DEF EventInv, Undisturbed, outside
    <3>3. Gathered'
      BY <3>1, Still DEF EventInv, Gathered, Pending, outside, docs, input
    <3> QED BY <3>2, <3>3 DEF EventInv
  <2> QED BY <2>3, <2>4
<1>3. Inv => EventsSuffice
  <2> SUFFICES ASSUME EventsAreSeen, EventInv, Settled PROVE Stored
    BY DEF EventsSuffice
  <2> QED BY DEF EventInv, Gathered, Pending, Settled
<1> HIDE DEF Inv
<1> QED BY <1>1, <1>2, <1>3, TypeHolds, PTL DEF Spec

=============================================================================
