---------------------------- MODULE MCSFBMCache ----------------------------
(* Instances of SFBMCache for TLC.                                         *)
EXTENDS SFBMCache

MCTrainers == {1, 2, 3}
MCScenes == {1, 2, 3}
MCNone == {}
MCUndefinedLives == {-1, 0, 3}

(* A bound: the calls of a behaviour are about trainers or about scenes.   *)
(* They share the report of the last operation alone, which no property of *)
(* this run is about.                                                      *)
VARIABLE about

AboutTrainers == UNCHANGED sceneVars /\ errorMessage'[1] # "scene"
AboutScenes ==
    UNCHANGED <<matcherVars, pcache>> /\ errorMessage'[1] \in {"none", "scene"}

MCInit ==
    /\ CacheInit
    /\ \/ about = "trainers" /\ lowestLifeSceneKey = NoKey
       \/ about = "scenes" /\ lowestLifeKey = NoKey

MCNext ==
    /\ CacheNext
    /\ IF about = "trainers" THEN AboutTrainers ELSE AboutScenes
    /\ UNCHANGED about

MCSpec == MCInit /\ [][MCNext]_<<cacheVars, about>>
=============================================================================
