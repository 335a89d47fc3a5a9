-------------------------- MODULE PrecacheBuild_proofs --------------------------
(***************************************************************************)
(* The safety properties of a cache build, for any levels, meshes and      *)
(* textures, any number of texture tasks, and any failures, cancels and    *)
(* crashes.                                                                *)
(***************************************************************************)
EXTENDS PrecacheBuild, TLAPS

Left(list) == {list[i] : i \in DOMAIN list}

AfterMeshes  == {"textures", "texPut", "terrain", "flush", "flushed", "mark"}
AfterTerrain == {"flush", "flushed", "mark"}

\* The store, as the build relies on it: a handle exists while a worker does, it
\* knows what is durable, and a flush that just succeeded left nothing pending.
StoreSound ==
    /\ ~up => pc = "off" /\ known = {}
    /\ up => durable \subseteq known
    /\ reply = "flushed" => known \subseteq durable
    /\ pc = "mark" => known \subseteq durable

\* The level being built is not complete, so no step on its files can disturb a
\* complete one; its packs are there from the moment they are published, and its
\* tasks exist only in the texture phase.
LevelOpen ==
    /\ pc \notin Between => Head(todo) \notin complete
    /\ pc \notin Between \cup {"placing"} => <<Head(todo), "placements">> \in packs
    /\ pc \in AfterTerrain => <<Head(todo), "terrain">> \in packs
    /\ pc \notin {"textures", "texPut"} => queued = {} /\ started = {}

\* The mesh loop leaves no readable mesh behind it that the store does not know,
\* but for a put that has just failed.
MeshesKnown ==
    /\ pc \in {"meshes", "meshPut"} /\ ~(pc = "meshPut" /\ reply = "failed")
        => Readable(MeshesOf[Head(todo)]) \subseteq known \cup jobs
    /\ pc \in AfterMeshes => Readable(MeshesOf[Head(todo)]) \subseteq known

\* A run that has not failed leaves no level behind, and leaves its loop early
\* only for a cancel.
LevelsLeft ==
    /\ pc # "off" /\ ~failed => Levels \subseteq complete \cup Left(todo)
    /\ pc \in {"last", "lastFlushed", "verdict"} /\ ~failed => cancel \/ todo = <<>>
    /\ pc = "install" => Levels \subseteq complete

\* A run fails for a reason of its own, or for a cancel.
Blamed == failed /\ pc # "off" => error \/ cancel

\* The meshes among these keys have their textures among those.
Textured(ks, ts) == \A m \in ks \cap Meshes : Readable(TexturesOf[m]) \subseteq ts

\* As long as no level was left half-built, the textures of every known mesh are
\* known too, or about to be.
TexturesKnown ==
    ~interrupted =>
        /\ pc \in Between \cup {"placing"}
            => known \subseteq durable /\ Textured(durable, durable)
        /\ pc \in {"meshes", "meshPut", "textures", "texPut"}
            => Textured(known, known \cup names)
        /\ pc \in {"textures", "texPut"} /\ ~cancel /\ ~texFailed
                /\ ~(pc = "texPut" /\ reply = "failed")
            => Readable(names) \subseteq known \cup queued \cup started
        /\ pc \in {"terrain"} \cup AfterTerrain => Textured(known, known)

\* What a step keeps whatever it does to the files of complete levels, and what
\* DiskKept keeps.
Upkeep ==
    /\ StoreSound /\ LevelOpen /\ MeshesKnown /\ LevelsLeft /\ Blamed /\ TexturesKnown
    /\ InstallMeansComplete /\ CancelIsNoFailure

IInv == TypeOK /\ Upkeep /\ MapUsable /\ TexturesIfUninterrupted

-----------------------------------------------------------------------------
USE BuildAssumption DEF store, disk, level, run, seen, vars, Outcomes, WorkerPC, Between,
                        Keys, Packs, AfterMeshes, AfterTerrain, S!Calls, S!Replies

\* The head and the tail of a list of levels.
LEMMA ListFacts ==
    ASSUME NEW list \in Seq(Levels), list # <<>>
    PROVE  /\ Head(list) \in Levels /\ Tail(list) \in Seq(Levels)
           /\ Left(list) \subseteq {Head(list)} \cup Left(Tail(list))
  <1>1. Len(list) \in Nat \ {0} /\ Len(Tail(list)) = Len(list) - 1
        OBVIOUS
  <1>2. \A i \in 1..(Len(list) - 1) : Tail(list)[i] = list[i + 1]
        OBVIOUS
  <1>3. ASSUME NEW i \in DOMAIN list PROVE list[i] \in {Head(list)} \cup Left(Tail(list))
    <2>1. CASE i = 1
          BY <2>1
    <2>2. CASE i # 1
      <3>1. i - 1 \in 1..(Len(list) - 1) /\ DOMAIN Tail(list) = 1..(Len(list) - 1)
            BY <1>1, <2>2
      <3>2. Tail(list)[i - 1] = list[i]
            BY <3>1, <1>2
      <3> QED BY <3>1, <3>2 DEF Left
    <2> QED BY <2>1, <2>2
  <1>4. Head(list) \in Levels /\ Tail(list) \in Seq(Levels)
        OBVIOUS
  <1> QED BY <1>3, <1>4 DEF Left

LEMMA WholeOrder == Left(Order) = Levels /\ Left(<<>>) = {}
  BY DEF Left, Levels

\* What the calls of the store change, as far as the build can tell.
LEMMA PutFacts ==
    ASSUME S!TypeOK, NEW k \in Keys, PutCall(k)
    PROVE  /\ S!TypeOK' /\ up /\ up' /\ durable' = durable
           /\ known \subseteq known' /\ known' \subseteq known \cup {k}
           /\ reply' \in {"stored", "putting", "failed"}
           /\ reply' # "failed" => k \in known'
  <1>1. up' \in BOOLEAN /\ broken' \in BOOLEAN
        BY DEF PutCall, S!PutKnown, S!PutNew, S!Fail, S!TypeOK
  <1> QED BY <1>1 DEF PutCall, S!PutKnown, S!PutNew, S!Fail, S!TypeOK, S!Idle

LEMMA FlushFacts ==
    ASSUME S!TypeOK, FlushCall
    PROVE  /\ S!TypeOK' /\ up /\ up' /\ durable' = durable /\ known' = known
           /\ reply' \in {"flushing", "flushed", "failed"}
           /\ reply' = "flushed" => known \subseteq durable
  <1>1. up' \in BOOLEAN /\ broken' \in BOOLEAN
        BY DEF FlushCall, S!Flush, S!Fail, S!TypeOK
  <1> QED BY <1>1 DEF FlushCall, S!Flush, S!Fail, S!TypeOK, S!Idle

LEMMA StoreFacts ==
    ASSUME S!TypeOK, StoreStep
    PROVE  /\ S!TypeOK' /\ up /\ up' /\ known' = known
           /\ durable \subseteq durable' /\ durable' \subseteq durable \cup known
           /\ reply \in S!Calls /\ (reply' = "flushed" => known \subseteq durable)
  <1>1. up' \in BOOLEAN /\ broken' \in BOOLEAN
        BY DEF StoreStep, S!Publish, S!Answer, S!Fail, S!TypeOK
  <1>2. CASE S!Publish
        BY <1>1, <1>2 DEF S!Publish, S!TypeOK, StoreStep
  <1>3. CASE S!Answer
        BY <1>1, <1>3 DEF S!Answer, S!TypeOK, StoreStep
  <1>4. CASE S!Fail
        BY <1>1, <1>4 DEF S!Fail, S!TypeOK, StoreStep
  <1> QED BY <1>2, <1>3, <1>4 DEF StoreStep

\* Complete levels stay usable when nothing is taken from them.
LEMMA DiskKept ==
    ASSUME MapUsable, TexturesIfUninterrupted, complete' = complete,
           durable \subseteq durable', interrupted => interrupted',
           \A l \in complete : \A p \in Packs : <<l, p>> \in packs => <<l, p>> \in packs'
    PROVE  MapUsable' /\ TexturesIfUninterrupted'
  <1>1. ASSUME NEW l \in complete PROVE {l} \X Packs \subseteq packs'
    <2>1. \A p \in Packs : <<l, p>> \in packs
          BY DEF MapUsable
    <2>2. \A p \in Packs : <<l, p>> \in packs'
          BY <2>1
    <2> QED BY <2>2
  <1>2. MapUsable'
        BY <1>1 DEF MapUsable
  <1>3. TexturesIfUninterrupted'
        BY DEF TexturesIfUninterrupted, TexturesStored
  <1> QED BY <1>2, <1>3

LEMMA BothPacks ==
    ASSUME NEW l, <<l, "placements">> \in packs, <<l, "terrain">> \in packs
    PROVE  {l} \X Packs \subseteq packs
  OBVIOUS

LEMMA Initially == Init => IInv
  <1> SUFFICES ASSUME Init PROVE IInv
      OBVIOUS
  <1> USE DEF Init, S!Init
  <1>1. TypeOK
    <2>1. installed \in BOOLEAN /\ cancel \in BOOLEAN /\ texFailed \in BOOLEAN
          /\ failed \in BOOLEAN /\ error \in BOOLEAN /\ interrupted \in BOOLEAN
          OBVIOUS
    <2>2. S!TypeOK
      <3>1. up \in BOOLEAN /\ broken \in BOOLEAN
            OBVIOUS
      <3> QED BY <3>1 DEF S!TypeOK
    <2>3. todo \in Seq(Levels)
          OBVIOUS
    <2> QED BY <2>1, <2>2, <2>3 DEF TypeOK
  <1>2. StoreSound /\ LevelOpen /\ MeshesKnown /\ LevelsLeft /\ Blamed
        BY DEF StoreSound, LevelOpen, MeshesKnown, LevelsLeft, Blamed
  <1>3. TexturesKnown
        BY DEF TexturesKnown, Textured
  <1>4. MapUsable /\ InstallMeansComplete /\ CancelIsNoFailure /\ TexturesIfUninterrupted
        BY DEF MapUsable, InstallMeansComplete, CancelIsNoFailure, TexturesIfUninterrupted,
               TexturesStored
  <1> QED BY <1>1, <1>2, <1>3, <1>4 DEF IInv, Upkeep

-----------------------------------------------------------------------------
\* The steps of the worker outside any level.
LEMMA BetweenStep ==
    ASSUME IInv,
        LeaveLoop \/ SkipLevel \/ OpenGameFails \/ FlushLast \/ LastFlushed \/
        Conclude \/ MarkInstalled \/ MarkInstalledFails
    PROVE  IInv'
  <1> USE DEF IInv, TypeOK, Upkeep, StoreSound, LevelOpen, MeshesKnown, LevelsLeft, Blamed,
             TexturesKnown, Textured, InstallMeansComplete, CancelIsNoFailure, Readable
  <1>1. ASSUME LeaveLoop PROVE IInv'
    <2>1. TypeOK'
          BY <1>1 DEF LeaveLoop, Move, S!TypeOK
    <2>2. Upkeep'
          BY <1>1 DEF LeaveLoop, Move
    <2>3. MapUsable' /\ TexturesIfUninterrupted'
          BY <1>1, DiskKept DEF LeaveLoop, Move
    <2> QED BY <2>1, <2>2, <2>3
  <1>2. ASSUME SkipLevel PROVE IInv'
    <2>1. TypeOK'
          BY <1>2, ListFacts DEF SkipLevel, SkipTest, S!TypeOK
    <2>2. Upkeep'
          BY <1>2, ListFacts DEF SkipLevel, SkipTest
    <2>3. MapUsable' /\ TexturesIfUninterrupted'
          BY <1>2, ListFacts, DiskKept DEF SkipLevel, SkipTest
    <2> QED BY <2>1, <2>2, <2>3
  <1>3. ASSUME OpenGameFails PROVE IInv'
    <2>b. failed' \in BOOLEAN /\ error' \in BOOLEAN
          BY <1>3 DEF OpenGameFails
    <2>1. TypeOK'
          BY <1>3, <2>b DEF OpenGameFails, S!TypeOK
    <2>2. Upkeep'
          BY <1>3, <2>b DEF OpenGameFails
    <2>3. MapUsable' /\ TexturesIfUninterrupted'
          BY <1>3, <2>b, DiskKept DEF OpenGameFails
    <2> QED BY <2>1, <2>2, <2>3
  <1>4. ASSUME FlushLast PROVE IInv'
    <2>1. TypeOK'
          BY <1>4, FlushFacts DEF FlushLast, Move, S!TypeOK
    <2>2. Upkeep'
          BY <1>4, FlushFacts DEF FlushLast, Move
    <2>3. MapUsable' /\ TexturesIfUninterrupted'
          BY <1>4, FlushFacts, DiskKept DEF FlushLast, Move
    <2> QED BY <2>1, <2>2, <2>3
  <1>5. ASSUME LastFlushed PROVE IInv'
    <2>b. failed' \in BOOLEAN /\ error' \in BOOLEAN
          BY <1>5 DEF LastFlushed
    <2>1. TypeOK'
          BY <1>5, <2>b DEF LastFlushed, S!TypeOK
    <2>2. Upkeep'
          BY <1>5, <2>b DEF LastFlushed
    <2>3. MapUsable' /\ TexturesIfUninterrupted'
          BY <1>5, <2>b, DiskKept DEF LastFlushed
    <2> QED BY <2>1, <2>2, <2>3
  <1>6. ASSUME Conclude PROVE IInv'
    <2>1. TypeOK'
          BY <1>6, WholeOrder DEF Conclude, Verdict, S!TypeOK
    <2>2. Upkeep'
          BY <1>6, WholeOrder DEF Conclude, Verdict
    <2>3. MapUsable' /\ TexturesIfUninterrupted'
          BY <1>6, WholeOrder, DiskKept DEF Conclude, Verdict
    <2> QED BY <2>1, <2>2, <2>3
  <1>7. ASSUME MarkInstalled PROVE IInv'
    <2>b. installed' \in BOOLEAN
          BY <1>7 DEF MarkInstalled
    <2>1. TypeOK'
          BY <1>7, <2>b DEF MarkInstalled, S!TypeOK
    <2>2. Upkeep'
          BY <1>7, <2>b DEF MarkInstalled
    <2>3. MapUsable' /\ TexturesIfUninterrupted'
          BY <1>7, <2>b, DiskKept DEF MarkInstalled
    <2> QED BY <2>1, <2>2, <2>3
  <1>8. ASSUME MarkInstalledFails PROVE IInv'
    <2>b. error' \in BOOLEAN
          BY <1>8 DEF MarkInstalledFails
    <2>1. TypeOK'
          BY <1>8, <2>b DEF MarkInstalledFails, S!TypeOK
    <2>2. Upkeep'
          BY <1>8, <2>b DEF MarkInstalledFails
    <2>3. MapUsable' /\ TexturesIfUninterrupted'
          BY <1>8, <2>b, DiskKept DEF MarkInstalledFails
    <2> QED BY <2>1, <2>2, <2>3
  <1> QED BY <1>1, <1>2, <1>3, <1>4, <1>5, <1>6, <1>7, <1>8

\* The first steps on a level, from the loop to its published placements.
LEMMA LevelBegins ==
    ASSUME IInv, OpenLevel \/ PublishPlacements
    PROVE  IInv'
  <1> USE DEF IInv, TypeOK, Upkeep, StoreSound, LevelOpen, MeshesKnown, LevelsLeft, Blamed,
             TexturesKnown, Textured, InstallMeansComplete, CancelIsNoFailure, Readable
  <1>1. ASSUME OpenLevel PROVE IInv'
    <2>1. TypeOK'
          BY <1>1, ListFacts DEF OpenLevel, Move, SkipTest, S!TypeOK
    <2>2. Upkeep'
          BY <1>1, ListFacts DEF OpenLevel, Move, SkipTest
    <2>3. MapUsable' /\ TexturesIfUninterrupted'
          BY <1>1, ListFacts, DiskKept DEF OpenLevel, Move, SkipTest
    <2> QED BY <2>1, <2>2, <2>3
  <1>2. ASSUME PublishPlacements PROVE IInv'
    <2>a. Head(todo) \in Levels /\ MeshesOf[Head(todo)] \subseteq Meshes
          BY <1>2, ListFacts DEF PublishPlacements, Move
    <2>b. <<Head(todo), "placements">> \in Levels \X Packs
          BY <2>a
    <2>1. TypeOK'
      <3>1. packs' \subseteq Levels \X Packs
            BY <1>2, <2>b DEF PublishPlacements
      <3> QED BY <1>2, <2>a, <3>1 DEF PublishPlacements, Move, S!TypeOK
    <2>2. Upkeep'
          BY <1>2, ListFacts DEF PublishPlacements, Move
    <2>3. MapUsable' /\ TexturesIfUninterrupted'
          BY <1>2, ListFacts, DiskKept DEF PublishPlacements, Move
    <2> QED BY <2>1, <2>2, <2>3
  <1> QED BY <1>1, <1>2

\* The mesh phase of a level.
LEMMA MeshStep ==
    ASSUME IInv,
        (\E m \in Meshes : PassMesh(m) \/ StoreMesh(m)) \/ MeshStored \/ MeshesDone
    PROVE  IInv'
  <1> USE DEF IInv, TypeOK, Upkeep, StoreSound, LevelOpen, MeshesKnown, LevelsLeft, Blamed,
             TexturesKnown, Textured, InstallMeansComplete, CancelIsNoFailure, Readable
  <1>1. ASSUME NEW m \in Meshes, PassMesh(m) PROVE IInv'
    <2>1. TypeOK'
          BY <1>1, ListFacts DEF PassMesh, PassOver, S!TypeOK
    <2>2. Upkeep'
          BY <1>1, ListFacts DEF PassMesh, PassOver
    <2>3. MapUsable' /\ TexturesIfUninterrupted'
          BY <1>1, ListFacts, DiskKept DEF PassMesh, PassOver
    <2> QED BY <2>1, <2>2, <2>3
  <1>2. ASSUME NEW m \in Meshes, StoreMesh(m) PROVE IInv'
    <2>1. TypeOK'
          BY <1>2, PutFacts, ListFacts DEF StoreMesh, PassOver, Move, NamesWith, S!TypeOK
    <2>2. Upkeep'
          BY <1>2, PutFacts, ListFacts DEF StoreMesh, PassOver, Move,
             NamesWith
    <2>3. MapUsable' /\ TexturesIfUninterrupted'
          BY <1>2, PutFacts, ListFacts, DiskKept DEF StoreMesh, PassOver,
             Move, NamesWith
    <2> QED BY <2>1, <2>2, <2>3
  <1>3. ASSUME MeshStored PROVE IInv'
    <2>1. TypeOK'
          BY <1>3 DEF MeshStored, Move, S!TypeOK
    <2>2. Upkeep'
          BY <1>3 DEF MeshStored, Move
    <2>3. MapUsable' /\ TexturesIfUninterrupted'
          BY <1>3, DiskKept DEF MeshStored, Move
    <2> QED BY <2>1, <2>2, <2>3
  <1>4. ASSUME MeshesDone PROVE IInv'
    <2>1. TypeOK'
          BY <1>4 DEF MeshesDone, Move, PendingTextures, S!TypeOK
    <2>2. Upkeep'
          BY <1>4 DEF MeshesDone, Move, PendingTextures
    <2>3. MapUsable' /\ TexturesIfUninterrupted'
          BY <1>4, DiskKept DEF MeshesDone, Move, PendingTextures
    <2> QED BY <2>1, <2>2, <2>3
  <1> QED BY <1>1, <1>2, <1>3, <1>4

\* The texture phase of a level.
LEMMA TextureStep ==
    ASSUME IInv,
        (\E t \in Textures : StartTask(t) \/ PassTexture(t) \/ StoreTexture(t)) \/
        TextureStored \/ TexturesDone
    PROVE  IInv'
  <1> USE DEF IInv, TypeOK, Upkeep, StoreSound, LevelOpen, MeshesKnown, LevelsLeft, Blamed,
             TexturesKnown, Textured, InstallMeansComplete, CancelIsNoFailure, Readable
  <1>1. ASSUME NEW t \in Textures, StartTask(t) PROVE IInv'
    <2>1. TypeOK'
          BY <1>1 DEF StartTask, Tasking, S!TypeOK
    <2>2. Upkeep'
          BY <1>1 DEF StartTask, Tasking
    <2>3. MapUsable' /\ TexturesIfUninterrupted'
          BY <1>1, DiskKept DEF StartTask, Tasking
    <2> QED BY <2>1, <2>2, <2>3
  <1>2. ASSUME NEW t \in Textures, PassTexture(t) PROVE IInv'
    <2>1. TypeOK'
          BY <1>2 DEF PassTexture, Tasking, S!TypeOK
    <2>2. Upkeep'
          BY <1>2 DEF PassTexture, Tasking
    <2>3. MapUsable' /\ TexturesIfUninterrupted'
          BY <1>2, DiskKept DEF PassTexture, Tasking
    <2> QED BY <2>1, <2>2, <2>3
  <1>3. ASSUME NEW t \in Textures, StoreTexture(t) PROVE IInv'
    <2>1. TypeOK'
          BY <1>3, PutFacts DEF StoreTexture, Move, S!TypeOK
    <2>2. Upkeep'
          BY <1>3, PutFacts DEF StoreTexture, Move
    <2>3. MapUsable' /\ TexturesIfUninterrupted'
          BY <1>3, PutFacts, DiskKept DEF StoreTexture, Move
    <2> QED BY <2>1, <2>2, <2>3
  <1>4. ASSUME TextureStored PROVE IInv'
    <2>b. texFailed' \in BOOLEAN /\ error' \in BOOLEAN
          BY <1>4 DEF TextureStored, Move
    <2>1. TypeOK'
          BY <1>4, <2>b DEF TextureStored, Move, S!TypeOK
    <2>2. Upkeep'
          BY <1>4, <2>b DEF TextureStored, Move
    <2>3. MapUsable' /\ TexturesIfUninterrupted'
          BY <1>4, <2>b, DiskKept DEF TextureStored, Move
    <2> QED BY <2>1, <2>2, <2>3
  <1>5. ASSUME TexturesDone PROVE IInv'
    <2>1. TypeOK'
          BY <1>5, ListFacts DEF TexturesDone, Move, TasksDone, S!TypeOK
    <2>2. Upkeep'
          BY <1>5, ListFacts DEF TexturesDone, Move, TasksDone
    <2>3. MapUsable' /\ TexturesIfUninterrupted'
          BY <1>5, ListFacts, DiskKept DEF TexturesDone, Move, TasksDone
    <2> QED BY <2>1, <2>2, <2>3
  <1> QED BY <1>1, <1>2, <1>3, <1>4, <1>5

\* The last steps on a level, from its terrain to its complete.json.
LEMMA LevelEnds ==
    ASSUME IInv,
        PublishTerrain \/ FlushLevel \/ LevelFlushed \/ MarkComplete
    PROVE  IInv'
  <1> USE DEF IInv, TypeOK, Upkeep, StoreSound, LevelOpen, MeshesKnown, LevelsLeft, Blamed,
             TexturesKnown, Textured, InstallMeansComplete, CancelIsNoFailure, Readable
  <1>1. ASSUME PublishTerrain PROVE IInv'
    <2>1. TypeOK'
          BY <1>1, ListFacts DEF PublishTerrain, Move, S!TypeOK
    <2>2. Upkeep'
          BY <1>1, ListFacts DEF PublishTerrain, Move
    <2>3. MapUsable' /\ TexturesIfUninterrupted'
          BY <1>1, ListFacts, DiskKept DEF PublishTerrain, Move
    <2> QED BY <2>1, <2>2, <2>3
  <1>2. ASSUME FlushLevel PROVE IInv'
    <2>1. TypeOK'
          BY <1>2, FlushFacts DEF FlushLevel, Move, S!TypeOK
    <2>2. Upkeep'
          BY <1>2, FlushFacts DEF FlushLevel, Move
    <2>3. MapUsable' /\ TexturesIfUninterrupted'
          BY <1>2, FlushFacts, DiskKept DEF FlushLevel, Move
    <2> QED BY <2>1, <2>2, <2>3
  <1>3. ASSUME LevelFlushed PROVE IInv'
    <2>1. TypeOK'
          BY <1>3 DEF LevelFlushed, Move, FlushOk, S!TypeOK
    <2>2. Upkeep'
          BY <1>3 DEF LevelFlushed, Move, FlushOk
    <2>3. MapUsable' /\ TexturesIfUninterrupted'
          BY <1>3, DiskKept DEF LevelFlushed, Move, FlushOk
    <2> QED BY <2>1, <2>2, <2>3
  <1>4. ASSUME MarkComplete PROVE IInv'
    <2>b. texFailed' \in BOOLEAN
          BY <1>4 DEF MarkComplete, NoLevel
    <2>1. TypeOK'
          BY <1>4, ListFacts, <2>b DEF MarkComplete, NoLevel, S!TypeOK
    <2>2. Upkeep'
          BY <1>4, ListFacts, <2>b DEF MarkComplete, NoLevel
    <2>l. Head(todo) \in Levels /\ MeshesOf[Head(todo)] \subseteq Meshes
          BY <1>4, ListFacts DEF MarkComplete
    <2>m. Readable(MeshesOf[Head(todo)]) \subseteq durable /\ known \subseteq durable
          /\ Readable(MeshesOf[Head(todo)]) \subseteq known
          BY <1>4 DEF MarkComplete
    <2>p. {Head(todo)} \X Packs \subseteq packs
      <3>1. <<Head(todo), "placements">> \in packs /\ <<Head(todo), "terrain">> \in packs
            BY <1>4 DEF MarkComplete
      <3> QED BY <3>1, BothPacks
    <2>t. ASSUME ~interrupted PROVE Readable(TexturesOfLevel(Head(todo))) \subseteq durable
      <3>1. Textured(known, known)
            BY <1>4, <2>t DEF MarkComplete
      <3> QED BY <3>1, <2>l, <2>m DEF TexturesOfLevel
    <2>3. MapUsable' /\ TexturesIfUninterrupted'
      <3>1. MapUsable'
            BY <1>4, <2>m, <2>p DEF MarkComplete, MapUsable
      <3>2. TexturesIfUninterrupted'
            BY <1>4, <2>t DEF MarkComplete, TexturesIfUninterrupted, TexturesStored
      <3> QED BY <3>1, <3>2
    <2> QED BY <2>1, <2>2, <2>3
  <1> QED BY <1>1, <1>2, <1>3, <1>4

\* Every way in which a level is given up.
LEMMA AbandonStep ==
    ASSUME IInv,
        (\E at \in {"placing", "terrain", "mark"} : StepFails(at)) \/ MeshCancelled
        \/ TexturesAbandoned \/ CallFailed
    PROVE  IInv'
  <1> USE DEF IInv, TypeOK, Upkeep, StoreSound, LevelOpen, MeshesKnown, LevelsLeft, Blamed,
             TexturesKnown, Textured, InstallMeansComplete, CancelIsNoFailure, Readable
  <1>1. ASSUME NEW at \in {"placing", "terrain", "mark"}, StepFails(at) PROVE IInv'
    <2>b.  texFailed' \in BOOLEAN /\ failed' \in BOOLEAN /\ interrupted' \in BOOLEAN
          /\ error' \in BOOLEAN
          BY <1>1 DEF StepFails, Abandon, AfterAbandon, NoLevel
    <2>1. TypeOK'
          BY <1>1, ListFacts, <2>b DEF StepFails, Abandon, AfterAbandon, NoLevel, S!TypeOK
    <2>2. Upkeep'
          BY <1>1, ListFacts, <2>b DEF StepFails, Abandon, AfterAbandon,
             NoLevel
    <2>3. MapUsable' /\ TexturesIfUninterrupted'
          BY <1>1, ListFacts, <2>b, DiskKept DEF StepFails, Abandon,
             AfterAbandon, NoLevel
    <2> QED BY <2>1, <2>2, <2>3
  <1>2. ASSUME MeshCancelled PROVE IInv'
    <2>b.  texFailed' \in BOOLEAN /\ failed' \in BOOLEAN /\ interrupted' \in BOOLEAN
          /\ error' \in BOOLEAN
          BY <1>2 DEF MeshCancelled, Abandon, AfterAbandon, NoLevel
    <2>1. TypeOK'
          BY <1>2, ListFacts, <2>b
          DEF MeshCancelled, Abandon, AfterAbandon, NoLevel, S!TypeOK
    <2>2. Upkeep'
          BY <1>2, ListFacts, <2>b DEF MeshCancelled, Abandon, AfterAbandon,
             NoLevel
    <2>3. MapUsable' /\ TexturesIfUninterrupted'
          BY <1>2, ListFacts, <2>b, DiskKept DEF MeshCancelled, Abandon,
             AfterAbandon, NoLevel
    <2> QED BY <2>1, <2>2, <2>3
  <1>3. ASSUME TexturesAbandoned PROVE IInv'
    <2>b.  texFailed' \in BOOLEAN /\ failed' \in BOOLEAN /\ interrupted' \in BOOLEAN
          /\ error' \in BOOLEAN
          BY <1>3 DEF TexturesAbandoned, TasksDone, Abandon, AfterAbandon, NoLevel
    <2>1. TypeOK'
          BY <1>3, ListFacts, <2>b
          DEF TexturesAbandoned, TasksDone, Abandon, AfterAbandon, NoLevel, S!TypeOK
    <2>2. Upkeep'
          BY <1>3, ListFacts, <2>b DEF TexturesAbandoned, TasksDone,
             Abandon, AfterAbandon, NoLevel
    <2>3. MapUsable' /\ TexturesIfUninterrupted'
          BY <1>3, ListFacts, <2>b, DiskKept DEF TexturesAbandoned,
             TasksDone, Abandon, AfterAbandon, NoLevel
    <2> QED BY <2>1, <2>2, <2>3
  <1>4. ASSUME CallFailed PROVE IInv'
    <2>b.  texFailed' \in BOOLEAN /\ failed' \in BOOLEAN /\ interrupted' \in BOOLEAN
          /\ error' \in BOOLEAN
          BY <1>4 DEF CallFailed, Abandon, AfterAbandon, NoLevel
    <2>1. TypeOK'
          BY <1>4, ListFacts, <2>b
          DEF CallFailed, Abandon, AfterAbandon, NoLevel, S!TypeOK
    <2>2. Upkeep'
          BY <1>4, ListFacts, <2>b DEF CallFailed, Abandon, AfterAbandon,
             NoLevel
    <2>3. MapUsable' /\ TexturesIfUninterrupted'
          BY <1>4, ListFacts, <2>b, DiskKept DEF CallFailed, Abandon,
             AfterAbandon, NoLevel
    <2> QED BY <2>1, <2>2, <2>3
  <1> QED BY <1>1, <1>2, <1>3, <1>4

\* The steps around the worker: the caller, a crash, and the store.
LEMMA OuterStep ==
    ASSUME IInv,
        OpenCache \/ Start \/ Cancel \/ Stop \/ StoreStep
    PROVE  IInv'
  <1> USE DEF IInv, TypeOK, Upkeep, StoreSound, LevelOpen, MeshesKnown, LevelsLeft, Blamed,
             TexturesKnown, Textured, InstallMeansComplete, CancelIsNoFailure, Readable
  <1>1. ASSUME OpenCache PROVE IInv'
    <2>b. up' \in BOOLEAN /\ broken' \in BOOLEAN
          BY <1>1 DEF OpenCache, S!Open
    <2>1. TypeOK'
          BY <1>1, <2>b DEF OpenCache, S!Open, S!TypeOK
    <2>2. Upkeep'
          BY <1>1, <2>b DEF OpenCache, S!Open
    <2>3. MapUsable' /\ TexturesIfUninterrupted'
          BY <1>1, <2>b, DiskKept DEF OpenCache, S!Open
    <2> QED BY <2>1, <2>2, <2>3
  <1>2. ASSUME Start PROVE IInv'
    <2>b. failed' \in BOOLEAN /\ cancel' \in BOOLEAN /\ error' \in BOOLEAN
          BY <1>2 DEF Start
    <2>1. TypeOK'
          BY <1>2, WholeOrder, <2>b DEF Start, S!TypeOK
    <2>2. Upkeep'
          BY <1>2, WholeOrder, <2>b DEF Start
    <2>3. MapUsable' /\ TexturesIfUninterrupted'
          BY <1>2, WholeOrder, <2>b, DiskKept DEF Start
    <2> QED BY <2>1, <2>2, <2>3
  <1>3. ASSUME Cancel PROVE IInv'
    <2>b. cancel' \in BOOLEAN
          BY <1>3 DEF Cancel
    <2>1. TypeOK'
          BY <1>3, <2>b DEF Cancel, S!TypeOK
    <2>2. Upkeep'
          BY <1>3, <2>b DEF Cancel
    <2>3. MapUsable' /\ TexturesIfUninterrupted'
          BY <1>3, <2>b, DiskKept DEF Cancel
    <2> QED BY <2>1, <2>2, <2>3
  <1>4. ASSUME Stop PROVE IInv'
    <2>b.  up' \in BOOLEAN /\ broken' \in BOOLEAN /\ texFailed' \in BOOLEAN
          /\ failed' \in BOOLEAN /\ cancel' \in BOOLEAN /\ error' \in BOOLEAN
          /\ interrupted' \in BOOLEAN
          BY <1>4 DEF Stop, S!Stop, NoLevel
    <2>1. TypeOK'
          BY <1>4, <2>b DEF Stop, S!Stop, NoLevel, S!TypeOK
    <2>2. Upkeep'
          BY <1>4, <2>b DEF Stop, S!Stop, NoLevel
    <2>3. MapUsable' /\ TexturesIfUninterrupted'
          BY <1>4, <2>b, DiskKept DEF Stop, S!Stop, NoLevel
    <2> QED BY <2>1, <2>2, <2>3
  <1>5. ASSUME StoreStep PROVE IInv'
    <2>1. TypeOK'
          BY <1>5, StoreFacts DEF StoreStep, S!TypeOK
    <2>2. Upkeep'
          BY <1>5, StoreFacts DEF StoreStep
    <2>3. MapUsable' /\ TexturesIfUninterrupted'
          BY <1>5, StoreFacts, DiskKept DEF StoreStep
    <2> QED BY <2>1, <2>2, <2>3
  <1> QED BY <1>1, <1>2, <1>3, <1>4, <1>5

-----------------------------------------------------------------------------
LEMMA Inductive == IInv /\ [Next]_vars => IInv'
  <1> SUFFICES ASSUME IInv, [Next]_vars PROVE IInv'
      OBVIOUS
  <1>1. CASE UNCHANGED vars
    <2>1. S!TypeOK' = S!TypeOK
          BY <1>1 DEF S!TypeOK
    <2> QED BY <1>1, <2>1
            DEF IInv, TypeOK, Upkeep, StoreSound, LevelOpen, MeshesKnown, LevelsLeft, Blamed,
                TexturesKnown, Textured, MapUsable, InstallMeansComplete, CancelIsNoFailure,
                TexturesIfUninterrupted, TexturesStored
  <1>2. CASE Next
        BY <1>2, OuterStep, BetweenStep, LevelBegins, MeshStep, TextureStep, LevelEnds,
           AbandonStep
        DEF Next, Work
  <1> QED BY <1>1, <1>2

\* The invariant holds in every reachable state.
THEOREM Invariance == Spec => []IInv
  BY Initially, Inductive, PTL DEF Spec

\* The variables always have their types.
THEOREM TypeCorrect == Spec => []TypeOK
  <1>1. IInv => TypeOK
        BY DEF IInv
  <1> QED BY Invariance, <1>1, PTL

\* complete.json is written last: a level that has one has both its packs and all
\* its readable meshes on disk, through every failure, cancel and crash.
THEOREM MapCorrect == Spec => []MapUsable
  <1>1. IInv => MapUsable
        BY DEF IInv
  <1> QED BY Invariance, <1>1, PTL

\* install-complete.json never stands without every complete.json.
THEOREM InstallCorrect == Spec => []InstallMeansComplete
  <1>1. IInv => InstallMeansComplete
        BY DEF IInv, Upkeep
  <1> QED BY Invariance, <1>1, PTL

\* A build reports failed only when something of its own failed, never for the
\* levels a cancel cut short.
THEOREM CancelCorrect == Spec => []CancelIsNoFailure
  <1>1. IInv => CancelIsNoFailure
        BY DEF IInv, Upkeep
  <1> QED BY Invariance, <1>1, PTL

\* A complete level has every readable texture its meshes name, in any history
\* that never left a level half-built.
THEOREM TexturesCorrect == Spec => []TexturesIfUninterrupted
  <1>1. IInv => TexturesIfUninterrupted
        BY DEF IInv
  <1> QED BY Invariance, <1>1, PTL
=============================================================================
