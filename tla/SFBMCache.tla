------------------------------ MODULE SFBMCache ------------------------------
(***************************************************************************)
(* The cache shared by the worker threads of a pattern-matching daemon     *)
(* (processing/SFBMCache.cpp): trainers ("matchers") and scenes loaded     *)
(* from the database, each with a life, and the patterns of the trainers.  *)
(*                                                                         *)
(* Every public operation but getLastOperationResult and indexCacheStatus  *)
(* runs under one static mutex, so each is a single action here.           *)
(* updateMatcher takes the mutex twice and sets "operation" after giving   *)
(* it back, so it is three steps: UnloadMatcher(id, TRUE), LoadMatcher(id) *)
(* and MarkUpdated.  The payloads are left out: a cached object is its id. *)
(* The hit, miss and load counters are left out too, nothing reads them.   *)
(***************************************************************************)
EXTENDS Integers, FiniteSets

CONSTANTS
    Trainers, Scenes, Patterns, \* the ids a request can name
    cacheMaxSize,               \* -cacheSize
    life,                       \* -cacheLife
    loadingTimeWeight,          \* -cacheLoadingTimeWeight
    discardLessValuable,        \* ~ CacheConfig.cacheNoDiscardLessValuable
    scenesCacheMaxSize,         \* -cacheScenesSize
    slife,                      \* -cacheScenesLife
    LoadSeconds,                \* (int) lt: whole seconds a load may take
    UndefinedLives,             \* what a read past matchersLife->end() may give
    MaxLife                     \* bound: no hit takes a life past it

(* The flags are read with stoi: any int can be given to them.             *)
ASSUME CacheAssumption ==
    /\ Trainers \subseteq Nat /\ Scenes \subseteq Nat
    /\ cacheMaxSize \in Int /\ scenesCacheMaxSize \in Int
    /\ life \in Int /\ slife \in Int /\ loadingTimeWeight \in Int
    /\ LoadSeconds \subseteq Nat /\ UndefinedLives \subseteq Int
    /\ discardLessValuable \in BOOLEAN /\ MaxLife \in Int

VARIABLES
    cache, matchersLife, cacheSize, lowestLifeKey,
    scache, scenesLife, scenesCacheSize, lowestLifeSceneKey,
    pcache,
    operation, lastInsertedIndex, lastRemovedIndex, errorMessage

matcherVars == <<cache, matchersLife, cacheSize, lowestLifeKey>>
sceneVars   == <<scache, scenesLife, scenesCacheSize, lowestLifeSceneKey>>
reportVars  == <<operation, lastInsertedIndex, lastRemovedIndex, errorMessage>>
cacheVars   == <<matcherVars, sceneVars, pcache, reportVars>>

NoKey == -1
Operations == {"NONE", "INSERTOP", "DELETEOP", "UPDATEOP", "ERROR"}

(* The error texts are kept as far as what they are about: the kind of the *)
(* object that could not be loaded and its id (DBDriver::getMessage).      *)
Errors == {<<"trainer", id>> : id \in Trainers}
             \cup {<<"scene", id>> : id \in Scenes}
             \cup {<<"pattern", id>> : id \in Trainers}
             \cup {<<"none", NoKey>>}

-----------------------------------------------------------------------------
(* Life *)

(* updateLife(id, -1, bounded): never below zero.                          *)
DecLife(l) == IF l - 1 >= 0 THEN l - 1 ELSE l

(* One tick: every key but the ignored one loses a life.                   *)
Tic(keys, lives, ignore) ==
    [k \in DOMAIN lives |->
        IF k \in keys \ {ignore} THEN DecLife(lives[k]) ELSE lives[k]]

(* Mutant: the most used key is taken.                                     *)
IsHighest(keys, lives, key) ==
    key \in keys /\ \A k \in keys : lives[key] >= lives[k]

(* The first key, in the order of the map, whose life is least.            *)
IsLowest(keys, lives, key) ==
    /\ key \in keys
    /\ \A k \in keys : \/ lives[key] < lives[k]
                       \/ lives[key] = lives[k] /\ key <= k

(* What a tick leaves in lowestLifeKey: unchanged when there is no key.    *)
NewLowest(keys, lives, old, new) ==
    IF keys = {} THEN new = old ELSE IsLowest(keys, lives, new)

(* Mutant: erase is forgotten.                                             *)
NotErased(f, k) == f

Without(f, k) == [x \in DOMAIN f \ {k} |-> f[x]]

(* f with x mapped to v, x in the domain or not: std::map's operator[].    *)
With(f, x, v) == [y \in DOMAIN f \cup {x} |-> IF y = x THEN v ELSE f[y]]

(* Mutant: room is made one object too late.                               *)
FullTooLate(size, max) == size > max

Full(size, max) == size = max

Keys == Trainers \cup {NoKey}
SceneKeys == Scenes \cup {NoKey}

-----------------------------------------------------------------------------
(* The constructor initializes neither lowestLifeKey nor                   *)
(* lowestLifeSceneKey: they start with any value.                          *)
CacheInit ==
    /\ cache = {} /\ matchersLife = <<>> /\ cacheSize = 0
    /\ lowestLifeKey \in Keys
    /\ scache = {} /\ scenesLife = <<>> /\ scenesCacheSize = 0
    /\ lowestLifeSceneKey \in SceneKeys
    /\ pcache = <<>>
    /\ operation = "NONE" /\ errorMessage = <<"none", NoKey>>
    /\ lastInsertedIndex = NoKey /\ lastRemovedIndex = NoKey

(* loadMatcher, the trainer is in the cache: tic, then incLife.            *)
LoadHit(id) ==
    LET ticked == Tic(cache, matchersLife, id) IN
    /\ id \in DOMAIN matchersLife
    /\ matchersLife[id] < MaxLife
    /\ lowestLifeKey' \in Keys
    /\ NewLowest(cache, ticked, lowestLifeKey, lowestLifeKey')
    /\ matchersLife' = [ticked EXCEPT ![id] = @ + 1]
    /\ lastInsertedIndex' = id
    /\ operation' = "INSERTOP"
    /\ UNCHANGED <<cache, cacheSize, sceneVars, pcache, lastRemovedIndex,
                   errorMessage>>

(* matchersLife->find(lowestLifeKey)->second: undefined past the end.      *)
LowestMatcherLives ==
    IF lowestLifeKey = NoKey THEN {-1}
    ELSE IF lowestLifeKey \in DOMAIN matchersLife
         THEN {matchersLife[lowestLifeKey]}
         ELSE UndefinedLives

NewMatcherLife(seconds) == seconds * loadingTimeWeight

(* The new trainer is not worth the place of the lowest one.               *)
Discard(newLife, lowest) ==
    discardLessValuable /\ Full(cacheSize, cacheMaxSize) /\ newLife < lowest

(* loadMatcher, the trainer comes from the database and is stored, in the  *)
(* slot of the trainer at lowestLifeKey when the cache is full.            *)
LoadStored(id, seconds) ==
    LET full   == Full(cacheSize, cacheMaxSize)
        kept   == IF full THEN cache \ {lowestLifeKey} ELSE cache
        lives  == IF full THEN Without(matchersLife, lowestLifeKey)
                          ELSE matchersLife
        stored == With(lives, id, life + NewMatcherLife(seconds))
    IN
    /\ id \notin DOMAIN matchersLife
    /\ \E lowest \in LowestMatcherLives :
          ~ Discard(NewMatcherLife(seconds), lowest)
    /\ cache' = kept \cup {id}
    /\ cacheSize' = IF full THEN cacheSize - 1 + 1 ELSE cacheSize + 1
    /\ matchersLife' = Tic(cache', stored, id)
    /\ lowestLifeKey' \in Keys
    /\ NewLowest(cache', matchersLife', lowestLifeKey, lowestLifeKey')
    /\ pcache' = IF full THEN Without(pcache, lowestLifeKey) ELSE pcache
    /\ lastRemovedIndex' = IF full THEN lowestLifeKey ELSE lastRemovedIndex
    /\ lastInsertedIndex' = id
    /\ operation' = "INSERTOP"
    /\ UNCHANGED <<sceneVars, errorMessage>>

(* Mutant: room is made, as far as the patterns, before the trainer is     *)
(* found not to be worth it.                                               *)
DiscardedTooLate(id, seconds) ==
    /\ id \notin DOMAIN matchersLife
    /\ \E lowest \in LowestMatcherLives :
          Discard(NewMatcherLife(seconds), lowest)
    /\ matchersLife' = Tic(cache, matchersLife, id)
    /\ lowestLifeKey' \in Keys
    /\ NewLowest(cache, matchersLife', lowestLifeKey, lowestLifeKey')
    /\ pcache' = Without(pcache, lowestLifeKey)
    /\ operation' = "INSERTOP"
    /\ UNCHANGED <<cache, cacheSize, sceneVars, lastInsertedIndex,
                   lastRemovedIndex, errorMessage>>

(* loadMatcher, loaded but not worth a slot: returned without being kept.  *)
LoadDiscarded(id, seconds) ==
    /\ id \notin DOMAIN matchersLife
    /\ \E lowest \in LowestMatcherLives :
          Discard(NewMatcherLife(seconds), lowest)
    /\ matchersLife' = Tic(cache, matchersLife, id)
    /\ lowestLifeKey' \in Keys
    /\ NewLowest(cache, matchersLife', lowestLifeKey, lowestLifeKey')
    /\ operation' = "INSERTOP"
    /\ UNCHANGED <<cache, cacheSize, sceneVars, pcache, lastInsertedIndex,
                   lastRemovedIndex, errorMessage>>

(* loadMatcher, loadMatcherFromDB fails: error is set, whatever the cause. *)
LoadFailed(id) ==
    /\ id \notin DOMAIN matchersLife
    /\ operation' = "ERROR"
    /\ errorMessage' = <<"trainer", id>>
    /\ UNCHANGED <<matcherVars, sceneVars, pcache, lastInsertedIndex,
                   lastRemovedIndex>>

(* loadMatcher with its error flag: FALSE, then TRUE.                      *)
LoadSucceeds(id) ==
    \/ LoadHit(id)
    \/ \E s \in LoadSeconds : LoadStored(id, s) \/ LoadDiscarded(id, s)

LoadMatcher(id) == LoadSucceeds(id) \/ LoadFailed(id)

(* Mutant: the size kept by hand is not brought down.                      *)
UnloadUncounted(id, keepPatterns) ==
    /\ id \in cache
    /\ cache' = cache \ {id}
    /\ matchersLife' = Without(matchersLife, id)
    /\ pcache' = IF keepPatterns THEN pcache ELSE Without(pcache, id)
    /\ lastRemovedIndex' = id
    /\ operation' = "DELETEOP"
    /\ UNCHANGED <<cacheSize, lowestLifeKey, sceneVars, lastInsertedIndex,
                   errorMessage>>

UnloadMatcher(id, keepPatterns) ==
    /\ id \in cache
    /\ cache' = cache \ {id}
    /\ matchersLife' = Without(matchersLife, id)
    /\ pcache' = IF keepPatterns THEN pcache ELSE Without(pcache, id)
    /\ cacheSize' = cacheSize - 1
    /\ lastRemovedIndex' = id
    /\ operation' = "DELETEOP"
    /\ UNCHANGED <<lowestLifeKey, sceneVars, lastInsertedIndex, errorMessage>>

(* Mutant: the report stays the one of the load.                           *)
NotMarked == UNCHANGED cacheVars

(* The end of updateMatcher, outside the mutex.                            *)
MarkUpdated ==
    /\ operation' = "UPDATEOP"
    /\ UNCHANGED <<matcherVars, sceneVars, pcache, lastInsertedIndex,
                   lastRemovedIndex, errorMessage>>

-----------------------------------------------------------------------------
(* loadScene: as loadMatcher, without lives bought by loading time and     *)
(* without discarding.                                                     *)
SceneHit(id) ==
    LET ticked == Tic(DOMAIN scenesLife, scenesLife, id) IN
    /\ id \in DOMAIN scenesLife
    /\ scenesLife[id] < MaxLife
    /\ lowestLifeSceneKey' \in SceneKeys
    /\ NewLowest(DOMAIN ticked, ticked, lowestLifeSceneKey, lowestLifeSceneKey')
    /\ scenesLife' = [ticked EXCEPT ![id] = @ + 1]
    /\ UNCHANGED <<scache, scenesCacheSize, matcherVars, pcache, reportVars>>

SceneStored(id) ==
    LET full  == Full(scenesCacheSize, scenesCacheMaxSize)
        lives == IF full THEN Without(scenesLife, lowestLifeSceneKey)
                         ELSE scenesLife
        stored == With(lives, id, slife)
    IN
    /\ id \notin DOMAIN scenesLife
    /\ scache' = (IF full THEN scache \ {lowestLifeSceneKey} ELSE scache)
                    \cup {id}
    /\ scenesCacheSize' = IF full THEN scenesCacheSize - 1 + 1
                                  ELSE scenesCacheSize + 1
    /\ scenesLife' = Tic(DOMAIN stored, stored, id)
    /\ lowestLifeSceneKey' \in SceneKeys
    /\ NewLowest(DOMAIN stored, scenesLife', lowestLifeSceneKey,
                 lowestLifeSceneKey')
    /\ UNCHANGED <<matcherVars, pcache, reportVars>>

SceneFailed(id) ==
    /\ id \notin DOMAIN scenesLife
    /\ operation' = "ERROR"
    /\ errorMessage' = <<"scene", id>>
    /\ UNCHANGED <<matcherVars, sceneVars, pcache, lastInsertedIndex,
                   lastRemovedIndex>>

SceneSucceeds(id) == SceneHit(id) \/ SceneStored(id)
LoadScene(id) == SceneSucceeds(id) \/ SceneFailed(id)

-----------------------------------------------------------------------------
(* loadPattern gives the trainer an entry in pcache, cached or not, before *)
(* it asks the database for the pattern.                                   *)
PatternsOf(id) == IF id \in DOMAIN pcache THEN pcache[id] ELSE {}

(* Mutant: the ids are swapped.                                            *)
PatternSwapped(id, pidx) ==
    /\ pcache' = With(pcache, pidx, PatternsOf(id) \cup {id})
    /\ UNCHANGED <<matcherVars, sceneVars, reportVars>>

PatternFound(id, pidx) ==
    /\ pcache' = With(pcache, id, PatternsOf(id) \cup {pidx})
    /\ UNCHANGED <<matcherVars, sceneVars, reportVars>>

PatternFailed(id, pidx) ==
    /\ pidx \notin PatternsOf(id)
    /\ pcache' = With(pcache, id, PatternsOf(id))
    /\ operation' = "ERROR"
    /\ errorMessage' = <<"pattern", id>>
    /\ UNCHANGED <<matcherVars, sceneVars, lastInsertedIndex, lastRemovedIndex>>

LoadPattern(id, pidx) == PatternFound(id, pidx) \/ PatternFailed(id, pidx)

(* getLastOperationResult forgets the operation it reports.                *)
GetLastOperationResult ==
    /\ operation' = "NONE"
    /\ UNCHANGED <<matcherVars, sceneVars, pcache, lastInsertedIndex,
                   lastRemovedIndex, errorMessage>>

-----------------------------------------------------------------------------
CacheNext ==
    \/ \E id \in Trainers :
          \/ LoadMatcher(id)
          \/ \E keep \in BOOLEAN : UnloadMatcher(id, keep)
          \/ \E pidx \in Patterns : LoadPattern(id, pidx)
    \/ \E id \in Scenes : LoadScene(id)
    \/ MarkUpdated
    \/ GetLastOperationResult

CacheSpec == CacheInit /\ [][CacheNext]_cacheVars
-----------------------------------------------------------------------------
(* Properties *)

(* The fields hold what their declarations say.                            *)
TypeOK ==
    /\ cache \subseteq Trainers /\ scache \subseteq Scenes
    /\ matchersLife \in [DOMAIN matchersLife -> Int]
    /\ scenesLife \in [DOMAIN scenesLife -> Int]
    /\ cacheSize \in Int /\ scenesCacheSize \in Int
    /\ lowestLifeKey \in Keys /\ lowestLifeSceneKey \in SceneKeys
    /\ DOMAIN pcache \subseteq Trainers
    /\ \A id \in DOMAIN pcache : pcache[id] \subseteq Patterns
    /\ operation \in Operations /\ errorMessage \in Errors
    /\ lastInsertedIndex \in Keys /\ lastRemovedIndex \in Keys

(* The three records of what is cached never drift apart: the map of the   *)
(* objects, the map of the lives and the size kept by hand.  They would if *)
(* an eviction erased a key that is not there and still counted it.        *)
MatchersConsistent ==
    /\ DOMAIN matchersLife = cache
    /\ cacheSize = Cardinality(cache)

(* The same of the scenes.                                                 *)
ScenesConsistent ==
    /\ DOMAIN scenesLife = scache
    /\ scenesCacheSize = Cardinality(scache)

(* When a load may have to evict, lowestLifeKey names a trainer that is in *)
(* the cache, though an unload may have erased the trainer it named and    *)
(* the constructor never sets it.                                          *)
VictimIsCached == cacheSize = cacheMaxSize => lowestLifeKey \in cache

(* The same of the scenes.                                                 *)
SceneVictimIsCached ==
    scenesCacheSize = scenesCacheMaxSize => lowestLifeSceneKey \in scache

(* The cache never holds more trainers than -cacheSize: "how many trainers *)
(* can be stored in the cache" (README-PatternMatcher.txt).                *)
WithinCacheSize == Cardinality(cache) <= cacheMaxSize

(* The same of the scenes.                                                 *)
WithinScenesSize == Cardinality(scache) <= scenesCacheMaxSize

(* The trainer an eviction would take is at most one life away from the    *)
(* least: lowestLifeKey is found before a hit adds a life to its trainer.  *)
VictimNearlyLowest ==
    lowestLifeKey \in cache =>
        \A k \in cache : matchersLife[lowestLifeKey] <= matchersLife[k] + 1

(* The trainer an eviction would take has the least life: "drop the less   *)
(* used object" (SFBMCache.hpp).  The code does not keep this.             *)
VictimIsLowest ==
    cacheSize = cacheMaxSize /\ lowestLifeKey \in cache =>
        \A k \in cache : matchersLife[lowestLifeKey] <= matchersLife[k]

(* With discarding on, a trainer is never dropped for one whose loading    *)
(* time earned it less life than the dropped one has (the footnote of the  *)
(* comment of the class).                                                  *)
NoValuableDropped ==
    [][ \A v \in cache \ cache', id \in cache' \ cache :
            discardLessValuable => matchersLife'[id] - life >= matchersLife[v]
      ]_cacheVars

(* Only a trainer that leaves takes patterns away, and an evicted one      *)
(* leaves none behind.                                                     *)
PatternsFollowEviction ==
    [][ /\ \A id \in DOMAIN pcache \ DOMAIN pcache' : id \in cache \ cache'
        /\ \A v \in cache \ cache' : cache' \ cache # {} => v \notin DOMAIN pcache'
      ]_cacheVars

(* Both caches do what BoundedCache promises.                              *)
Matchers == INSTANCE BoundedCache
    WITH Objects <- Trainers, Capacity <- cacheMaxSize, content <- cache
SceneObjects == INSTANCE BoundedCache
    WITH Objects <- Scenes, Capacity <- scenesCacheMaxSize, content <- scache

MatchersBounded == Matchers!Spec
ScenesBounded == SceneObjects!Spec
=============================================================================
