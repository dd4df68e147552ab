-------------------------- MODULE SFBMCacheProofs --------------------------
(***************************************************************************)
(* Proofs about SFBMCache, for any trainers and scenes, any lives, weights *)
(* and loading times, and any positive sizes of the two caches.            *)
(***************************************************************************)
EXTENDS SFBMCache, FiniteSetTheorems, TLAPS

-----------------------------------------------------------------------------
(* Types *)

(* A tick keeps the keys and changes no life but by taking one from it.    *)
LEMMA TicType ==
    ASSUME NEW keys, NEW lives, NEW ignore,
           lives \in [DOMAIN lives -> Int]
    PROVE  /\ DOMAIN Tic(keys, lives, ignore) = DOMAIN lives
           /\ Tic(keys, lives, ignore) \in [DOMAIN lives -> Int]
           /\ \A k \in DOMAIN lives : Tic(keys, lives, ignore)[k] <= lives[k]
    BY DEF Tic, DecLife

(* Erasing a key and setting one, as std::map does them.                   *)
LEMMA WithoutType ==
    ASSUME NEW f, NEW k, f \in [DOMAIN f -> Int]
    PROVE  /\ DOMAIN Without(f, k) = DOMAIN f \ {k}
           /\ Without(f, k) \in [DOMAIN f \ {k} -> Int]
    BY DEF Without

LEMMA WithType ==
    ASSUME NEW f, NEW k, NEW v \in Int, f \in [DOMAIN f -> Int]
    PROVE  /\ DOMAIN With(f, k, v) = DOMAIN f \cup {k}
           /\ With(f, k, v) \in [DOMAIN f \cup {k} -> Int]
    BY DEF With

(* The maps of pattern sets keep their shape as entries come and go.       *)
PatternMap(p) == /\ DOMAIN p \subseteq Trainers
                 /\ \A id \in DOMAIN p : p[id] \subseteq Patterns

LEMMA PatternMapSteps ==
    ASSUME NEW p, PatternMap(p), NEW id \in Trainers, NEW S \in SUBSET Patterns,
           NEW k
    PROVE  PatternMap(With(p, id, S)) /\ PatternMap(Without(p, k))
    BY DEF PatternMap, With, Without

(* TypeOK, for the configurations of any size.                             *)
THEOREM TypeCorrect == CacheSpec => []TypeOK
<1>1. CacheInit => TypeOK
  BY CacheAssumption
     DEF CacheInit, TypeOK, Keys, SceneKeys, NoKey, Operations, Errors
<1>2. TypeOK /\ [CacheNext]_cacheVars => TypeOK'
  <2> SUFFICES ASSUME TypeOK, [CacheNext]_cacheVars PROVE TypeOK'
    OBVIOUS
  <2> USE CacheAssumption DEF Operations
  <2>0. PatternMap(pcache) /\ (PatternMap(pcache') <=>
             /\ DOMAIN pcache' \subseteq Trainers
             /\ \A id \in DOMAIN pcache' : pcache'[id] \subseteq Patterns)
    BY DEF TypeOK, PatternMap
  <2>1. ASSUME NEW id \in Trainers, LoadHit(id) PROVE TypeOK'
    <3>1. Tic(cache, matchersLife, id) \in [DOMAIN matchersLife -> Int]
      BY TicType DEF TypeOK
    <3>2. matchersLife' \in [DOMAIN matchersLife -> Int]
      BY <2>1, <3>1 DEF LoadHit
    <3> QED BY <2>1, <3>2 DEF TypeOK, LoadHit, sceneVars, Keys
  <2>2. ASSUME NEW id \in Trainers, NEW s \in LoadSeconds, LoadStored(id, s)
        PROVE  TypeOK'
    <3> DEFINE full == cacheSize = cacheMaxSize
               lives == IF full THEN Without(matchersLife, lowestLifeKey)
                                ELSE matchersLife
               stored == With(lives, id, life + NewMatcherLife(s))
    <3>1. lives \in [DOMAIN lives -> Int]
      BY WithoutType DEF TypeOK
    <3>2. life + NewMatcherLife(s) \in Int
      BY DEF NewMatcherLife
    <3>3. stored \in [DOMAIN stored -> Int]
      <4> HIDE DEF lives
      <4> QED BY <3>1, <3>2, WithType
    <3>4. matchersLife' \in [DOMAIN stored -> Int]
      <4>1. matchersLife' = Tic(cache', stored, id)
        BY <2>2 DEF LoadStored, Full
      <4> HIDE DEF stored
      <4> QED BY <3>3, <4>1, TicType
    <3>5. PatternMap(pcache')
      BY <2>0, <2>2, PatternMapSteps, Zenon DEF LoadStored, PatternMap, Without
    <3>6. matchersLife' \in [DOMAIN matchersLife' -> Int]
      <4> HIDE DEF stored
      <4> QED BY <3>4
    <3> HIDE DEF full, lives, stored
    <3>7. /\ cache' \subseteq Trainers /\ cacheSize' \in Int
          /\ lowestLifeKey' \in Keys
          /\ lastInsertedIndex' \in Keys /\ lastRemovedIndex' \in Keys
          /\ operation' = "INSERTOP"
          /\ UNCHANGED <<sceneVars, errorMessage>>
      BY <2>2 DEF LoadStored, TypeOK, Keys
    <3> QED BY <2>0, <3>5, <3>6, <3>7 DEF TypeOK, sceneVars
  <2>3. ASSUME NEW id \in Trainers, NEW s \in LoadSeconds,
               LoadDiscarded(id, s)
        PROVE  TypeOK'
    <3>1. matchersLife' \in [DOMAIN matchersLife -> Int]
      BY <2>3, TicType DEF LoadDiscarded, TypeOK
    <3> QED BY <2>3, <3>1 DEF TypeOK, LoadDiscarded, sceneVars, Keys
  <2>4. ASSUME NEW id \in Trainers, LoadFailed(id) PROVE TypeOK'
    BY <2>4 DEF TypeOK, LoadFailed, matcherVars, sceneVars, Errors
  <2>5. ASSUME NEW id \in Trainers, NEW keep \in BOOLEAN,
               UnloadMatcher(id, keep)
        PROVE  TypeOK'
    <3>1. matchersLife' \in [DOMAIN matchersLife \ {id} -> Int]
      BY <2>5, WithoutType DEF UnloadMatcher, TypeOK
    <3>2. PatternMap(pcache')
      BY <2>0, <2>5, PatternMapSteps DEF UnloadMatcher, PatternMap, Without
    <3> QED
      BY <2>0, <2>5, <3>1, <3>2 DEF TypeOK, UnloadMatcher, sceneVars, Keys
  <2>6. ASSUME NEW id \in Trainers, NEW pidx \in Patterns,
               LoadPattern(id, pidx)
        PROVE  TypeOK'
    <3>1. PatternsOf(id) \in SUBSET Patterns
      BY DEF PatternsOf, TypeOK
    <3>2. PatternMap(pcache')
      BY <2>0, <2>6, <3>1, PatternMapSteps
         DEF LoadPattern, PatternFound, PatternFailed
    <3> QED
      BY <2>0, <2>6, <3>2
         DEF TypeOK, LoadPattern, PatternFound, PatternFailed, matcherVars,
             sceneVars, reportVars, Errors
  <2>7. ASSUME NEW id \in Scenes, SceneHit(id) PROVE TypeOK'
    <3>1. Tic(DOMAIN scenesLife, scenesLife, id)
             \in [DOMAIN scenesLife -> Int]
      BY TicType DEF TypeOK
    <3>2. scenesLife' \in [DOMAIN scenesLife -> Int]
      BY <2>7, <3>1 DEF SceneHit
    <3> QED BY <2>7, <3>2 DEF TypeOK, SceneHit, matcherVars, reportVars
  <2>8. ASSUME NEW id \in Scenes, SceneStored(id) PROVE TypeOK'
    <3> DEFINE full == scenesCacheSize = scenesCacheMaxSize
               lives == IF full THEN Without(scenesLife, lowestLifeSceneKey)
                                ELSE scenesLife
               stored == With(lives, id, slife)
    <3>1. lives \in [DOMAIN lives -> Int]
      BY WithoutType DEF TypeOK
    <3>2. stored \in [DOMAIN stored -> Int]
      <4> HIDE DEF lives
      <4> QED BY <3>1, WithType
    <3>3. scenesLife' \in [DOMAIN stored -> Int]
      <4>1. scenesLife' = Tic(DOMAIN stored, stored, id)
        BY <2>8 DEF SceneStored, Full
      <4> HIDE DEF stored
      <4> QED BY <3>2, <4>1, TicType
    <3> QED BY <2>8, <3>3 DEF TypeOK, SceneStored, matcherVars, reportVars
  <2>9. ASSUME NEW id \in Scenes, SceneFailed(id) PROVE TypeOK'
    BY <2>9 DEF TypeOK, SceneFailed, matcherVars, sceneVars, Errors
  <2>10. CASE MarkUpdated
    BY <2>10 DEF TypeOK, MarkUpdated, matcherVars, sceneVars
  <2>11. CASE GetLastOperationResult
    BY <2>11 DEF TypeOK, GetLastOperationResult, matcherVars, sceneVars
  <2>12. CASE UNCHANGED cacheVars
    BY <2>12 DEF TypeOK, cacheVars, matcherVars, sceneVars, reportVars
  <2> QED
    BY <2>1, <2>2, <2>3, <2>4, <2>5, <2>6, <2>7, <2>8, <2>9, <2>10, <2>11,
       <2>12
       DEF CacheNext, LoadMatcher, LoadSucceeds, LoadScene, SceneSucceeds
<1> QED BY <1>1, <1>2, PTL DEF CacheSpec

-----------------------------------------------------------------------------
(* The matchers cache *)

(* What every operation keeps of the matchers cache: no part of it alone   *)
(* is inductive.  The size kept by hand is right because an eviction finds *)
(* its victim; it finds it because a full cache was last changed by a load,*)
(* which ticked; and that gives the bound.                                 *)
MatchersInv ==
    /\ cache \subseteq Trainers /\ IsFiniteSet(cache)
    /\ matchersLife \in [cache -> Int]
    /\ MatchersConsistent
    /\ WithinCacheSize
    /\ VictimIsCached
    /\ VictimNearlyLowest

(* After a tick lowestLifeKey is a key with the least life.                *)
LEMMA TickedLowest ==
    ASSUME NEW keys, NEW lives \in [keys -> Int], NEW old, NEW new,
           keys # {}, NewLowest(keys, lives, old, new)
    PROVE  new \in keys /\ \A k \in keys : lives[new] <= lives[k]
    BY DEF NewLowest, IsLowest

LEMMA HitKeeps ==
    ASSUME MatchersInv, NEW id \in Trainers, LoadHit(id)
    PROVE  MatchersInv'
<1> DEFINE ticked == Tic(cache, matchersLife, id)
<1>1. DOMAIN matchersLife = cache /\ id \in cache
  BY DEF MatchersInv, MatchersConsistent, LoadHit
<1>2. ticked \in [cache -> Int]
  BY <1>1, TicType DEF MatchersInv
<1>3. matchersLife' = [ticked EXCEPT ![id] = @ + 1] /\ cache' = cache
      /\ cacheSize' = cacheSize
      /\ NewLowest(cache, ticked, lowestLifeKey, lowestLifeKey')
  BY DEF LoadHit
<1> HIDE DEF ticked
<1>4. /\ lowestLifeKey' \in cache
      /\ \A k \in cache : ticked[lowestLifeKey'] <= ticked[k]
  <2>1. cache # {} BY <1>1
  <2> QED BY <1>2, <1>3, <2>1, TickedLowest
<1>5. matchersLife' \in [cache -> Int]
      /\ \A k \in cache : /\ matchersLife'[k] >= ticked[k]
                          /\ matchersLife'[k] <= ticked[k] + 1
  BY <1>1, <1>2, <1>3
<1>6. \A k \in cache : matchersLife'[lowestLifeKey'] <= matchersLife'[k] + 1
  <2> SUFFICES ASSUME NEW k \in cache
               PROVE  matchersLife'[lowestLifeKey'] <= matchersLife'[k] + 1
    OBVIOUS
  <2>1. /\ ticked[lowestLifeKey'] \in Int /\ ticked[k] \in Int
        /\ matchersLife'[lowestLifeKey'] \in Int /\ matchersLife'[k] \in Int
    BY <1>2, <1>4, <1>5
  <2> QED BY <1>4, <1>5, <2>1
<1> QED
  BY <1>1, <1>3, <1>4, <1>5, <1>6
     DEF MatchersInv, MatchersConsistent, WithinCacheSize, VictimIsCached,
         VictimNearlyLowest

LEMMA StoreKeeps ==
    ASSUME cacheMaxSize > 0, MatchersInv,
           NEW id \in Trainers, NEW s \in LoadSeconds, LoadStored(id, s)
    PROVE  MatchersInv'
<1> DEFINE full == cacheSize = cacheMaxSize
           kept == IF full THEN cache \ {lowestLifeKey} ELSE cache
           lives == IF full THEN Without(matchersLife, lowestLifeKey)
                            ELSE matchersLife
           stored == With(lives, id, life + NewMatcherLife(s))
<1>1. /\ id \notin cache /\ DOMAIN matchersLife = cache
      /\ cacheSize = Cardinality(cache) /\ IsFiniteSet(cache)
      /\ cacheMaxSize \in Int /\ Cardinality(cache) \in Nat
      /\ Cardinality(cache) <= cacheMaxSize
      /\ full => lowestLifeKey \in cache
  BY FS_CardinalityType, CacheAssumption
     DEF MatchersInv, MatchersConsistent, WithinCacheSize, VictimIsCached,
         LoadStored, Full
<1>2. /\ cache' = kept \cup {id}
      /\ cacheSize' = IF full THEN cacheSize - 1 + 1 ELSE cacheSize + 1
      /\ matchersLife' = Tic(cache', stored, id)
      /\ NewLowest(cache', matchersLife', lowestLifeKey, lowestLifeKey')
  BY DEF LoadStored, Full
<1>3. /\ IsFiniteSet(kept) /\ id \notin kept
      /\ Cardinality(kept) = IF full THEN Cardinality(cache) - 1
                                     ELSE Cardinality(cache)
  BY <1>1, FS_RemoveElement
<1>4. /\ IsFiniteSet(cache') /\ cacheSize' = Cardinality(cache')
      /\ Cardinality(cache') <= cacheMaxSize
  <2>1. /\ IsFiniteSet(kept \cup {id})
        /\ Cardinality(kept \cup {id}) = Cardinality(kept) + 1
    <3> HIDE DEF kept
    <3> QED BY <1>3, FS_AddElement
  <2> HIDE DEF kept, lives, stored
  <2> QED BY <1>1, <1>2, <1>3, <2>1
<1>5. lives \in [kept -> Int]
  BY <1>1, WithoutType DEF MatchersInv
<1>6. stored \in [cache' -> Int]
  <2>1. life + NewMatcherLife(s) \in Int
    BY CacheAssumption DEF NewMatcherLife
  <2> HIDE DEF lives, kept
  <2> QED BY <1>2, <1>5, <2>1, WithType
<1>7. matchersLife' \in [cache' -> Int]
  <2> HIDE DEF stored
  <2> QED BY <1>2, <1>6, TicType
<1>8. /\ lowestLifeKey' \in cache'
      /\ \A k \in cache' : matchersLife'[lowestLifeKey'] <= matchersLife'[k]
  BY <1>2, <1>7, TickedLowest
<1>9. \A k \in cache' : matchersLife'[lowestLifeKey'] <= matchersLife'[k] + 1
  BY <1>7, <1>8
<1>10. cache' \subseteq Trainers
  BY <1>2 DEF MatchersInv
<1> QED
  BY <1>4, <1>7, <1>8, <1>9, <1>10
     DEF MatchersInv, MatchersConsistent, WithinCacheSize, VictimIsCached,
         VictimNearlyLowest

LEMMA DiscardKeeps ==
    ASSUME cacheMaxSize > 0, MatchersInv,
           NEW id \in Trainers, NEW s \in LoadSeconds, LoadDiscarded(id, s)
    PROVE  MatchersInv'
<1>1. /\ DOMAIN matchersLife = cache /\ matchersLife \in [cache -> Int]
      /\ cacheSize = cacheMaxSize
  BY DEF MatchersInv, MatchersConsistent, LoadDiscarded, Discard, Full
<1>2. cache # {}
  <2>1. Cardinality(cache) > 0
    BY <1>1 DEF MatchersInv, MatchersConsistent
  <2> QED BY <2>1, FS_EmptySet
<1>3. /\ matchersLife' = Tic(cache, matchersLife, id) /\ cache' = cache
      /\ cacheSize' = cacheSize
      /\ NewLowest(cache, matchersLife', lowestLifeKey, lowestLifeKey')
  BY DEF LoadDiscarded
<1>4. matchersLife' \in [cache -> Int]
  BY <1>1, <1>3, TicType
<1>5. /\ lowestLifeKey' \in cache
      /\ \A k \in cache : matchersLife'[lowestLifeKey'] <= matchersLife'[k]
  BY <1>2, <1>3, <1>4, TickedLowest
<1>6. \A k \in cache : matchersLife'[lowestLifeKey'] <= matchersLife'[k] + 1
  BY <1>4, <1>5
<1> QED
  BY <1>3, <1>4, <1>5, <1>6
     DEF MatchersInv, MatchersConsistent, WithinCacheSize, VictimIsCached,
         VictimNearlyLowest

LEMMA UnloadKeeps ==
    ASSUME cacheMaxSize > 0, MatchersInv,
           NEW id \in Trainers, NEW keep, UnloadMatcher(id, keep)
    PROVE  MatchersInv'
<1>1. /\ DOMAIN matchersLife = cache /\ matchersLife \in [cache -> Int]
      /\ cacheSize = Cardinality(cache) /\ id \in cache
      /\ IsFiniteSet(cache) /\ Cardinality(cache) \in Nat
      /\ Cardinality(cache) <= cacheMaxSize /\ cacheMaxSize \in Int
  BY FS_CardinalityType, CacheAssumption
     DEF MatchersInv, MatchersConsistent, WithinCacheSize, UnloadMatcher
<1>2. /\ cache' = cache \ {id} /\ cacheSize' = cacheSize - 1
      /\ matchersLife' = Without(matchersLife, id)
      /\ lowestLifeKey' = lowestLifeKey
  BY DEF UnloadMatcher
<1>3. /\ IsFiniteSet(cache') /\ cacheSize' = Cardinality(cache')
      /\ Cardinality(cache') < cacheMaxSize
  <2>1. /\ IsFiniteSet(cache \ {id})
        /\ Cardinality(cache \ {id}) = Cardinality(cache) - 1
    BY <1>1, FS_RemoveElement
  <2> QED BY <1>1, <1>2, <2>1
<1>4. /\ matchersLife' \in [cache' -> Int]
      /\ \A k \in cache' : matchersLife'[k] = matchersLife[k]
  BY <1>1, <1>2 DEF Without
<1>5. VictimNearlyLowest'
  BY <1>2, <1>4 DEF VictimNearlyLowest, MatchersInv
<1> QED
  BY <1>1, <1>2, <1>3, <1>4, <1>5
     DEF MatchersInv, MatchersConsistent, WithinCacheSize, VictimIsCached

(* The other operations leave the matchers alone.                          *)
LEMMA OthersKeep ==
    ASSUME MatchersInv, UNCHANGED matcherVars
    PROVE  MatchersInv'
    BY DEF MatchersInv, matcherVars, MatchersConsistent, WithinCacheSize,
           VictimIsCached, VictimNearlyLowest

(* A positive -cacheSize keeps the invariant: the sizes and maps agree,    *)
(* the bound holds and an eviction has a victim, one with nearly the least *)
(* life.                                                                   *)
THEOREM MatchersCorrect ==
    ASSUME cacheMaxSize > 0
    PROVE  CacheSpec => []MatchersInv
<1>1. CacheInit => MatchersInv
  BY FS_EmptySet, CacheAssumption
     DEF CacheInit, MatchersInv, MatchersConsistent, WithinCacheSize,
         VictimIsCached, VictimNearlyLowest
<1>2. MatchersInv /\ [CacheNext]_cacheVars => MatchersInv'
  <2> SUFFICES ASSUME MatchersInv, [CacheNext]_cacheVars
               PROVE  MatchersInv'
    OBVIOUS
  <2>1. ASSUME NEW id \in Trainers, LoadMatcher(id) PROVE MatchersInv'
    <3>1. CASE LoadFailed(id)
      BY <3>1, OthersKeep DEF LoadFailed
    <3> QED
      BY <2>1, <3>1, HitKeeps, StoreKeeps, DiscardKeeps
         DEF LoadMatcher, LoadSucceeds
  <2>2. ASSUME NEW id \in Trainers, NEW keep \in BOOLEAN,
               UnloadMatcher(id, keep)
        PROVE  MatchersInv'
    BY <2>2, UnloadKeeps
  <2>3. ASSUME NEW id \in Trainers, NEW pidx \in Patterns,
               LoadPattern(id, pidx)
        PROVE  MatchersInv'
    BY <2>3, OthersKeep DEF LoadPattern, PatternFound, PatternFailed
  <2>4. ASSUME NEW id \in Scenes, LoadScene(id) PROVE MatchersInv'
    BY <2>4, OthersKeep
       DEF LoadScene, SceneSucceeds, SceneHit, SceneStored, SceneFailed
  <2>5. CASE MarkUpdated \/ GetLastOperationResult
    BY <2>5, OthersKeep DEF MarkUpdated, GetLastOperationResult
  <2>6. CASE UNCHANGED cacheVars
    BY <2>6, OthersKeep DEF cacheVars
  <2> QED BY <2>1, <2>2, <2>3, <2>4, <2>5, <2>6 DEF CacheNext
<1> QED BY <1>1, <1>2, PTL DEF CacheSpec

(* The parts of the invariant that the runs check, one by one.             *)
THEOREM MatchersSafe ==
    ASSUME cacheMaxSize > 0
    PROVE  /\ CacheSpec => []MatchersConsistent
           /\ CacheSpec => []WithinCacheSize
<1>1. MatchersInv => MatchersConsistent /\ WithinCacheSize
  BY DEF MatchersInv
<1> QED BY <1>1, MatchersCorrect, PTL

(* What an eviction would take is cached, and of nearly the least life.    *)
THEOREM VictimSafe ==
    ASSUME cacheMaxSize > 0
    PROVE  /\ CacheSpec => []VictimIsCached
           /\ CacheSpec => []VictimNearlyLowest
<1>1. MatchersInv => VictimIsCached /\ VictimNearlyLowest
  BY DEF MatchersInv
<1> QED BY <1>1, MatchersCorrect, PTL

(* With a positive -cacheSize the matchers cache implements BoundedCache:  *)
(* a load into a full cache replaces exactly one trainer, a load into one  *)
(* with room replaces none, and nothing else changes what is cached but an *)
(* unload, which takes one.                                                *)
THEOREM MatchersRefine ==
    ASSUME cacheMaxSize > 0
    PROVE  CacheSpec => MatchersBounded
<1>1. CacheInit => Matchers!Init
  BY DEF CacheInit, Matchers!Init
<1>2. MatchersInv /\ [CacheNext]_cacheVars => [Matchers!Next]_cache
  <2> SUFFICES ASSUME MatchersInv, [CacheNext]_cacheVars, cache' # cache
               PROVE  Matchers!Next
    OBVIOUS
  <2>1. ASSUME NEW id \in Trainers, NEW s \in LoadSeconds, LoadStored(id, s)
        PROVE  Matchers!Next
    <3>1. /\ id \notin cache /\ cacheSize = Cardinality(cache)
          /\ Cardinality(cache) \in Nat /\ cacheMaxSize \in Int
          /\ Cardinality(cache) <= cacheMaxSize
      BY <2>1, FS_CardinalityType, CacheAssumption
         DEF LoadStored, Full, MatchersInv, MatchersConsistent, WithinCacheSize
    <3>2. CASE cacheSize = cacheMaxSize
      <4>1. lowestLifeKey \in cache /\ lowestLifeKey \in Trainers
        BY <3>2 DEF MatchersInv, VictimIsCached
      <4>2. cache' = (cache \ {lowestLifeKey}) \cup {id}
        BY <2>1, <3>2 DEF LoadStored, Full
      <4>3. Matchers!Replace(id, lowestLifeKey)
        BY <3>1, <3>2, <4>1, <4>2 DEF Matchers!Replace, Matchers!Cardinality, Cardinality
      <4> QED BY <4>1, <4>3 DEF Matchers!Next
    <3>3. CASE cacheSize # cacheMaxSize
      <4>1. cache' = cache \cup {id}
        BY <2>1, <3>3 DEF LoadStored, Full
      <4>2. Matchers!Add(id)
        BY <3>1, <3>3, <4>1 DEF Matchers!Add, Matchers!Cardinality, Cardinality
      <4> QED BY <4>2 DEF Matchers!Next
    <3> QED BY <3>2, <3>3
  <2>2. ASSUME NEW id \in Trainers, NEW keep \in BOOLEAN,
               UnloadMatcher(id, keep)
        PROVE  Matchers!Next
    BY <2>2 DEF UnloadMatcher, Matchers!Next, Matchers!Remove
  <2>3. ASSUME NEW id \in Trainers,
               \/ LoadHit(id) \/ LoadFailed(id)
               \/ \E s \in LoadSeconds : LoadDiscarded(id, s)
               \/ \E pidx \in Patterns : LoadPattern(id, pidx)
        PROVE  FALSE
    BY <2>3 DEF LoadHit, LoadFailed, LoadDiscarded, LoadPattern, PatternFound,
                PatternFailed, matcherVars
  <2>4. ASSUME NEW id \in Scenes, LoadScene(id) PROVE FALSE
    BY <2>4 DEF LoadScene, SceneSucceeds, SceneHit, SceneStored, SceneFailed,
                matcherVars
  <2>5. ~ (MarkUpdated \/ GetLastOperationResult \/ UNCHANGED cacheVars)
    BY DEF MarkUpdated, GetLastOperationResult, cacheVars, matcherVars
  <2> QED
    BY <2>1, <2>2, <2>3, <2>4, <2>5 DEF CacheNext, LoadMatcher, LoadSucceeds
<1> QED
  BY <1>1, <1>2, MatchersCorrect, PTL
     DEF CacheSpec, MatchersBounded, Matchers!Spec

(* With discarding on, an eviction never drops a trainer with more life    *)
(* than the loading time of the new one earns it.                          *)
THEOREM ValuableKept ==
    ASSUME cacheMaxSize > 0
    PROVE  CacheSpec => NoValuableDropped
<1> DEFINE Keeps ==
      \A v \in cache \ cache', id \in cache' \ cache :
          discardLessValuable => matchersLife'[id] - life >= matchersLife[v]
<1>1. MatchersInv /\ [CacheNext]_cacheVars => [Keeps]_cacheVars
  <2> SUFFICES ASSUME MatchersInv, CacheNext,
                      NEW v \in cache \ cache', NEW id \in cache' \ cache,
                      discardLessValuable
               PROVE  matchersLife'[id] - life >= matchersLife[v]
    OBVIOUS
  <2>1. PICK x \in Trainers, s \in LoadSeconds : LoadStored(x, s)
    BY DEF CacheNext, LoadMatcher, LoadSucceeds, LoadHit, LoadFailed,
           LoadDiscarded, LoadPattern, PatternFound, PatternFailed, LoadScene,
           SceneSucceeds, SceneHit, SceneStored, SceneFailed, MarkUpdated,
           GetLastOperationResult, UnloadMatcher, matcherVars
  <2>2. /\ id = x /\ v = lowestLifeKey /\ cacheSize = cacheMaxSize
        /\ v \in DOMAIN matchersLife
    BY <2>1 DEF LoadStored, Full, MatchersInv, MatchersConsistent
  <2>3. v # NoKey /\ LowestMatcherLives = {matchersLife[v]}
    BY <2>2, CacheAssumption DEF LowestMatcherLives, NoKey, MatchersInv
  <2>4. ~ (NewMatcherLife(s) < matchersLife[v])
    BY <2>1, <2>2, <2>3 DEF LoadStored, Full, Discard
  <2>5. matchersLife'[x] = life + NewMatcherLife(s)
    BY <2>1 DEF LoadStored, Tic, With
  <2>6. NewMatcherLife(s) \in Int /\ matchersLife[v] \in Int /\ life \in Int
    BY <2>2, CacheAssumption DEF NewMatcherLife, MatchersInv
  <2> QED BY <2>2, <2>4, <2>5, <2>6
<1> QED BY <1>1, MatchersCorrect, PTL DEF CacheSpec, NoValuableDropped

(* Patterns leave with their trainer and only then: an eviction, which     *)
(* names its victim by lowestLifeKey twice, takes from pcache what it took *)
(* from the cache, and no other step but an unload takes any away.         *)
THEOREM PatternsLeaveWithTrainer ==
    ASSUME cacheMaxSize > 0
    PROVE  CacheSpec => PatternsFollowEviction
<1> DEFINE Follows ==
      /\ \A id \in DOMAIN pcache \ DOMAIN pcache' : id \in cache \ cache'
      /\ \A v \in cache \ cache' :
            cache' \ cache # {} => v \notin DOMAIN pcache'
<1>1. MatchersInv /\ [CacheNext]_cacheVars => [Follows]_cacheVars
  <2> SUFFICES ASSUME MatchersInv, CacheNext PROVE Follows
    OBVIOUS
  <2>1. ASSUME NEW x \in Trainers, NEW s \in LoadSeconds, LoadStored(x, s)
        PROVE  Follows
    <3>1. CASE cacheSize = cacheMaxSize
      <4>1. lowestLifeKey \in cache /\ x \notin cache
        BY <2>1, <3>1
           DEF MatchersInv, MatchersConsistent, VictimIsCached, LoadStored
      <4>2. /\ cache' = (cache \ {lowestLifeKey}) \cup {x}
            /\ DOMAIN pcache' = DOMAIN pcache \ {lowestLifeKey}
        BY <2>1, <3>1 DEF LoadStored, Full, Without
      <4> QED BY <4>1, <4>2
    <3>2. CASE cacheSize # cacheMaxSize
      BY <2>1, <3>2 DEF LoadStored, Full
    <3> QED BY <3>1, <3>2
  <2>2. ASSUME NEW x \in Trainers, NEW keep \in BOOLEAN, UnloadMatcher(x, keep)
        PROVE  Follows
    <3>1. /\ x \in cache /\ cache' = cache \ {x}
          /\ DOMAIN pcache \ DOMAIN pcache' \subseteq {x}
      BY <2>2 DEF UnloadMatcher, Without
    <3> QED BY <3>1
  <2>3. ASSUME NEW x \in Trainers, NEW pidx \in Patterns, LoadPattern(x, pidx)
        PROVE  Follows
    <3>1. DOMAIN pcache \subseteq DOMAIN pcache' /\ cache' = cache
      BY <2>3 DEF LoadPattern, PatternFound, PatternFailed, With, matcherVars
    <3> QED BY <3>1
  <2>4. ASSUME \/ \E x \in Trainers :
                     \/ LoadHit(x) \/ LoadFailed(x)
                     \/ \E s \in LoadSeconds : LoadDiscarded(x, s)
               \/ \E x \in Scenes : LoadScene(x)
               \/ MarkUpdated \/ GetLastOperationResult
        PROVE  Follows
    <3>1. pcache' = pcache /\ cache' = cache
      BY <2>4 DEF LoadHit, LoadFailed, LoadDiscarded, LoadScene, SceneSucceeds,
                  SceneHit, SceneStored, SceneFailed, MarkUpdated,
                  GetLastOperationResult, matcherVars
    <3> QED BY <3>1
  <2> QED
    BY <2>1, <2>2, <2>3, <2>4 DEF CacheNext, LoadMatcher, LoadSucceeds
<1> QED BY <1>1, MatchersCorrect, PTL DEF CacheSpec, PatternsFollowEviction

-----------------------------------------------------------------------------
(* The scenes cache *)

(* As MatchersInv; nothing unloads a scene, so a non-empty cache always    *)
(* has a victim.                                                           *)
ScenesInv ==
    /\ scache \subseteq Scenes /\ IsFiniteSet(scache)
    /\ scenesLife \in [scache -> Int]
    /\ ScenesConsistent
    /\ WithinScenesSize
    /\ SceneVictimIsCached

LEMMA SceneHitKeeps ==
    ASSUME ScenesInv, NEW id \in Scenes, SceneHit(id)
    PROVE  ScenesInv'
<1> DEFINE ticked == Tic(DOMAIN scenesLife, scenesLife, id)
<1>1. DOMAIN scenesLife = scache /\ id \in scache
  BY DEF ScenesInv, ScenesConsistent, SceneHit
<1>2. ticked \in [scache -> Int]
  BY <1>1, TicType DEF ScenesInv
<1>3. /\ scenesLife' = [ticked EXCEPT ![id] = @ + 1] /\ scache' = scache
      /\ scenesCacheSize' = scenesCacheSize
      /\ NewLowest(DOMAIN ticked, ticked, lowestLifeSceneKey,
                   lowestLifeSceneKey')
  BY DEF SceneHit
<1> HIDE DEF ticked
<1>4. lowestLifeSceneKey' \in scache
  BY <1>1, <1>2, <1>3, TickedLowest
<1>5. scenesLife' \in [scache -> Int]
  BY <1>1, <1>2, <1>3
<1> QED
  BY <1>1, <1>3, <1>4, <1>5
     DEF ScenesInv, ScenesConsistent, WithinScenesSize, SceneVictimIsCached

LEMMA SceneStoreKeeps ==
    ASSUME scenesCacheMaxSize > 0, ScenesInv,
           NEW id \in Scenes, SceneStored(id)
    PROVE  ScenesInv'
<1> DEFINE full == scenesCacheSize = scenesCacheMaxSize
           kept == IF full THEN scache \ {lowestLifeSceneKey} ELSE scache
           lives == IF full THEN Without(scenesLife, lowestLifeSceneKey)
                            ELSE scenesLife
           stored == With(lives, id, slife)
<1>1. /\ id \notin scache /\ DOMAIN scenesLife = scache
      /\ scenesCacheSize = Cardinality(scache) /\ IsFiniteSet(scache)
      /\ scenesCacheMaxSize \in Int /\ Cardinality(scache) \in Nat
      /\ Cardinality(scache) <= scenesCacheMaxSize
      /\ full => lowestLifeSceneKey \in scache
  BY FS_CardinalityType, CacheAssumption
     DEF ScenesInv, ScenesConsistent, WithinScenesSize, SceneVictimIsCached,
         SceneStored, Full
<1>2. /\ scache' = kept \cup {id}
      /\ scenesCacheSize' = IF full THEN scenesCacheSize - 1 + 1
                                    ELSE scenesCacheSize + 1
      /\ scenesLife' = Tic(DOMAIN stored, stored, id)
      /\ NewLowest(DOMAIN stored, scenesLife', lowestLifeSceneKey,
                   lowestLifeSceneKey')
  BY DEF SceneStored, Full
<1>3. /\ IsFiniteSet(kept) /\ id \notin kept
      /\ Cardinality(kept) = IF full THEN Cardinality(scache) - 1
                                     ELSE Cardinality(scache)
  BY <1>1, FS_RemoveElement
<1>4. /\ IsFiniteSet(scache') /\ scenesCacheSize' = Cardinality(scache')
      /\ Cardinality(scache') <= scenesCacheMaxSize
  <2>1. /\ IsFiniteSet(kept \cup {id})
        /\ Cardinality(kept \cup {id}) = Cardinality(kept) + 1
    <3> HIDE DEF kept
    <3> QED BY <1>3, FS_AddElement
  <2> HIDE DEF kept, lives, stored
  <2> QED BY <1>1, <1>2, <1>3, <2>1
<1>5. lives \in [kept -> Int]
  BY <1>1, WithoutType DEF ScenesInv
<1>6. DOMAIN stored = scache' /\ stored \in [scache' -> Int]
  <2>1. slife \in Int
    BY CacheAssumption
  <2> HIDE DEF lives, kept
  <2> QED BY <1>2, <1>5, <2>1, WithType
<1>7. scenesLife' \in [scache' -> Int]
  <2> HIDE DEF stored
  <2> QED BY <1>2, <1>6, TicType
<1>8. lowestLifeSceneKey' \in scache'
  <2> HIDE DEF stored
  <2> QED BY <1>2, <1>6, <1>7, TickedLowest
<1>9. scache' \subseteq Scenes
  BY <1>2 DEF ScenesInv
<1> QED
  BY <1>4, <1>7, <1>8, <1>9
     DEF ScenesInv, ScenesConsistent, WithinScenesSize, SceneVictimIsCached

(* A positive -cacheScenesSize keeps the invariant of the scenes.          *)
THEOREM ScenesCorrect ==
    ASSUME scenesCacheMaxSize > 0
    PROVE  CacheSpec => []ScenesInv
<1>1. CacheInit => ScenesInv
  BY FS_EmptySet, CacheAssumption
     DEF CacheInit, ScenesInv, ScenesConsistent, WithinScenesSize,
         SceneVictimIsCached
<1>2. ScenesInv /\ [CacheNext]_cacheVars => ScenesInv'
  <2> SUFFICES ASSUME ScenesInv, [CacheNext]_cacheVars PROVE ScenesInv'
    OBVIOUS
  <2>1. CASE UNCHANGED sceneVars
    BY <2>1 DEF ScenesInv, sceneVars, ScenesConsistent, WithinScenesSize,
                SceneVictimIsCached
  <2>2. ASSUME NEW id \in Scenes, LoadScene(id) PROVE ScenesInv'
    BY <2>1, <2>2, SceneHitKeeps, SceneStoreKeeps
       DEF LoadScene, SceneSucceeds, SceneFailed
  <2>3. ASSUME NEW id \in Trainers,
               \/ LoadMatcher(id)
               \/ \E keep \in BOOLEAN : UnloadMatcher(id, keep)
               \/ \E pidx \in Patterns : LoadPattern(id, pidx)
        PROVE  UNCHANGED sceneVars
    BY <2>3 DEF LoadMatcher, LoadSucceeds, LoadHit, LoadStored, LoadDiscarded,
                LoadFailed, UnloadMatcher, LoadPattern, PatternFound,
                PatternFailed
  <2>4. CASE MarkUpdated \/ GetLastOperationResult \/ UNCHANGED cacheVars
    BY <2>1, <2>4 DEF MarkUpdated, GetLastOperationResult, cacheVars
  <2> QED BY <2>1, <2>2, <2>3, <2>4 DEF CacheNext
<1> QED BY <1>1, <1>2, PTL DEF CacheSpec

(* The parts of the invariant that the runs check, one by one.             *)
THEOREM ScenesSafe ==
    ASSUME scenesCacheMaxSize > 0
    PROVE  /\ CacheSpec => []ScenesConsistent
           /\ CacheSpec => []WithinScenesSize
           /\ CacheSpec => []SceneVictimIsCached
<1>1. ScenesInv => ScenesConsistent /\ WithinScenesSize /\ SceneVictimIsCached
  BY DEF ScenesInv
<1> QED BY <1>1, ScenesCorrect, PTL

(* With a positive -cacheScenesSize the scenes cache implements            *)
(* BoundedCache too, and never takes one out but for another.              *)
THEOREM ScenesRefine ==
    ASSUME scenesCacheMaxSize > 0
    PROVE  CacheSpec => ScenesBounded
<1>1. CacheInit => SceneObjects!Init
  BY DEF CacheInit, SceneObjects!Init
<1>2. ScenesInv /\ [CacheNext]_cacheVars => [SceneObjects!Next]_scache
  <2> SUFFICES ASSUME ScenesInv, [CacheNext]_cacheVars, scache' # scache
               PROVE  SceneObjects!Next
    OBVIOUS
  <2>1. ASSUME NEW id \in Scenes, SceneStored(id) PROVE SceneObjects!Next
    <3>1. /\ id \notin scache /\ scenesCacheSize = Cardinality(scache)
          /\ Cardinality(scache) \in Nat /\ scenesCacheMaxSize \in Int
          /\ Cardinality(scache) <= scenesCacheMaxSize
      BY <2>1, FS_CardinalityType, CacheAssumption
         DEF SceneStored, Full, ScenesInv, ScenesConsistent, WithinScenesSize
    <3>2. CASE scenesCacheSize = scenesCacheMaxSize
      <4>1. lowestLifeSceneKey \in scache /\ lowestLifeSceneKey \in Scenes
        BY <3>2 DEF ScenesInv, SceneVictimIsCached
      <4>2. scache' = (scache \ {lowestLifeSceneKey}) \cup {id}
        BY <2>1, <3>2 DEF SceneStored, Full
      <4>3. SceneObjects!Replace(id, lowestLifeSceneKey)
        BY <3>1, <3>2, <4>1, <4>2
           DEF SceneObjects!Replace, SceneObjects!Cardinality, Cardinality
      <4> QED BY <4>1, <4>3 DEF SceneObjects!Next
    <3>3. CASE scenesCacheSize # scenesCacheMaxSize
      <4>1. scache' = scache \cup {id}
        BY <2>1, <3>3 DEF SceneStored, Full
      <4>2. SceneObjects!Add(id)
        BY <3>1, <3>3, <4>1
           DEF SceneObjects!Add, SceneObjects!Cardinality, Cardinality
      <4> QED BY <4>2 DEF SceneObjects!Next
    <3> QED BY <3>2, <3>3
  <2>2. ASSUME NEW id \in Scenes, SceneHit(id) \/ SceneFailed(id) PROVE FALSE
    BY <2>2 DEF SceneHit, SceneFailed, sceneVars
  <2>3. ASSUME NEW id \in Trainers,
               \/ LoadMatcher(id)
               \/ \E keep \in BOOLEAN : UnloadMatcher(id, keep)
               \/ \E pidx \in Patterns : LoadPattern(id, pidx)
        PROVE  FALSE
    BY <2>3 DEF LoadMatcher, LoadSucceeds, LoadHit, LoadStored, LoadDiscarded,
                LoadFailed, UnloadMatcher, LoadPattern, PatternFound,
                PatternFailed, sceneVars
  <2>4. ~ (MarkUpdated \/ GetLastOperationResult \/ UNCHANGED cacheVars)
    BY DEF MarkUpdated, GetLastOperationResult, cacheVars, sceneVars
  <2> QED
    BY <2>1, <2>2, <2>3, <2>4 DEF CacheNext, LoadScene, SceneSucceeds
<1> QED
  BY <1>1, <1>2, ScenesCorrect, PTL
     DEF CacheSpec, ScenesBounded, SceneObjects!Spec
=============================================================================
