# A verification project for the Anakin daemons

TLA+ modules that model the concurrent core of the Anakin daemons
(`src/src`, `src/includes`), TLC configurations that check them on small
instances, and theorems TLAPS checks for every value of the constants.
All source paths below are relative to the repository.

## 1. The system

A *daemon* (`pattern_matcher`, `face_matcher`, `ocr`, ...) reads requests from
the console or from HTTP, queues them, and lets a pool of worker threads run
them.  A run ends with one output or one error, which a writing thread prints or
hands back to the HTTP client; the run of `face_matcher`, a stub, ends with
neither.  In HTTP mode one thread polls, and it waits for the answer of a request
before it takes the next.  The pattern matcher keeps the
trainers, scenes and patterns it loads from PostgreSQL in a cache all the
workers share.  *Simple programs* (trainers, extractors, database connectors)
run once over their input.

| component (source) | state it keeps | operations | talks to | hard about it | correct when |
|---|---|---|---|---|---|
| `SFBMCache` | five maps of trainers, scenes, lives and patterns, two sizes and two "lowest" keys kept by hand, the report of the last operation | `loadMatcher`, `unloadMatcher`, `updateMatcher`, `loadScene`, `loadPattern`, `getLastOperationResult`, `indexCacheStatus` | database driver, workers | one mutex per call but not over the report and the status; `updateMatcher` takes it twice; uninitialised fields | the records agree, the bound holds, the right object is evicted |
| `PatternMatcher` on `Worker` threads | the request in hand | `validateRequest`, `run` | cache, output | a request is several cache calls, other workers run in between | a request is answered once, and about itself |
| `Server`, `RequestServer`, `Worker`, `BlockingQueue` | bounded queue, threads | `start`, `execute`, `stopWorkers`, `endServer` | workers, output | the stop pushes null requests through a queue that may be full; joins in order | nothing read is lost, a stop ends the daemon |
| `DataOutput` | queue of messages, writing thread | `output`, `error`, `close` | HTTP map or console | closed while messages are queued | all is written before the end |
| `BlockingMap` | map of answers, semaphore | `put`, `get` | HTTP listener, writing thread | an answer may be put between the look of a `get` and its wait; posts of earlier answers are left over | a `get` whose answer is there returns |
| `HTTPListener`, `HTTPSocket` | `running`, `lastID`, messages, the map | `ev_handler`, `start`, `read`, `respond`, `stop` | mongoose, server | the thread that polls is the one that waits; ids come round; two places that recognise a stop; requests behind a stop | each client gets the answer of its request, everything ends |
| `Flags` | tables of flags, found flags and values of the last input | `set...`, `validateInput`, `flagFound`, `getFlagValues` | every program and runner | one object validates input after input | the verdict is the documented one and nothing is left over |
| `Daemon`, `Program` | configuration | `initProgramFlags`, `run` | `Flags`, `Server` | pairwise rules between flags | what is accepted can start |
| `TempDirCleaner`, `DirCleanerWorker`, `Files`, `SerializableFlannBasedMatcher` | files of one directory, queue of names to delete, what the load has read | export, read, decompress in place, open the index, delete later by name | database driver, cache | the thread deletes names a later load of the same id is using; an export may fail half-way; the queue dies with the process and the files do not | a load that ends well has its own object's data, and no file is forgotten |
| `DBDriver`, `PatternDBConnector` | tables and large objects | save, retrieve, store the nth pattern | PostgreSQL | sequences of statements and file operations that may fail half-way | rows and files agree |
| `OCR`, `FaceDetector`, `Pair`, `FaceMatcher` | a runner's request id, error and chosen service | `validateRequest`, `run` | OpenCV, Tesseract | fields left between requests, two services asked in turn, exceptions nothing catches | an answer is about its request |
| trainers, extractors, data, formatting, XML, statistics, help | none that outlives a call | | | numeric, I/O | |

`PROJECT.json` lists every hazard with its line, and the properties aimed at it.

## 2. The modules

    BoundedCache   Service          abstract specifications
         ^            ^
    SFBMCache      RequestServer    BlockingMap     Flags
         ^               ^              ^            ^     ^
    PatternMatcher       +-- HTTPServer-+  PatternMatcherFlags  DaemonFlags

    PatternDB        (on its own: the programs behind the daemons' database)
    TempFiles        (on its own: the loads under SFBMCache's mutex, file by file)
    Runners          (on its own: the requests of the other daemons)

An arrow to an abstract specification is a refinement, checked by TLC as a
property and proved; the other arrows are `EXTENDS`.  `MC*.tla` holds the values
of the constants, `*Proofs.tla` the theorems: `FlagsProofs`
has those of the three modules of flags, `HTTPServerProofs` those of the map too.

**SFBMCache** (`processing/SFBMCache.cpp`).  `cache`, `matchersLife`,
`cacheSize`, `lowestLifeKey` and their scene counterparts are the fields of the
class, a cached object being its id.  Every call under the mutex is one action,
with its trailing `tic`: `LoadHit`, `LoadStored`, `LoadDiscarded`, `LoadFailed`
are the ways `loadMatcher` returns, `UnloadMatcher`, `LoadScene`, `LoadPattern`
the others.  `updateMatcher` is `UnloadMatcher(id, TRUE)`, `LoadMatcher(id)` and
`MarkUpdated`, since it gives the mutex back between them.  The constructor
leaves `lowestLifeKey` unset, so it starts as any key, and what a read past the
end of the map of lives yields is any of `UndefinedLives`.  The database is a
nondeterministic answer; the loading time is any of `LoadSeconds`.
*Left out*: hit and miss counters, which nothing reads.

**BoundedCache** is what the comment of the class promises: room is made only
when there is none, by dropping exactly one object, and one object at a time
comes or goes.

**PatternMatcher** (`commandrunner/PatternMatcher.cpp`, `Worker.cpp`,
`CommandRunner.cpp`, `BasicFlannDetector.cpp`).  A worker pops, validates and runs a
request as a series of steps, each at most one cache call.  `Report` and `Forget`
are the two halves of the unlocked `getLastOperationResult`, `StatusStep` and
`StatusFreeStep` those of `indexCacheStatus`.  Where the unlocked read meets a
write (a map while it is iterated, a string while it is copied) the behaviour of
the program is undefined: `Race` is the outcome that it ends; going on with
either value is the other.  `RunThrows` is `stoi` throwing out of the thread, for
`-reqID` at the start of `run`, for an index where its turn comes, after what was
done for those before it (`Throws`).  `PatternNull` is the use of a null pattern.

**RequestServer** (`connection/Server.hpp`, `RequestServer.hpp`,
`output/DataOutput.cpp`, the two `Worker`s).  The main thread reads, pushes to the
bounded queue, and at a stop pushes a null per worker, joins them, closes the
output and joins its thread.  Blocking pushes and pops are guards.
**Service** is the promise: accept while open, answer what was accepted, once,
and end only when all is answered.  The mapping takes `accepted` to what is
anywhere on its way, `answered` to what was written.

**BlockingMap** (`utils/BlockingMap.hpp`).  `get` is a look under the lock and a
wait on the semaphore; a post wakes any one waiter, which looks again.
*Left out*: `unblock`, `exist` and `getKeys`, which nothing calls.

**HTTPServer** (`HTTPListener.cpp`, `HTTPSocket.cpp`,
`DataOutputWorkerHTTPSocket.cpp`).  The mongoose of `lib/mongoose.c` (5.4) has no
threads of its own: `mg_poll_server` runs the loop over the connections in the
thread that calls it (lines 4709-4711, 858), and `num_threads` is not among its
options (1163-1200), so `HTTPListener.cpp:54` has no effect and the sentence on
"several listener threads" (`HTTPListener.hpp:23`) is not what happens.  One
thread polls (`HTTPSocket.cpp:53`): `Poller`, the only getter of the map.  It takes
a post and an id (`Handle`), pushes the message, tests `running`, and waits in the
map (`Ask`, `InGet`) until it can `Send`; only then comes the next post, of the same
poll or a later one.  So in HTTP mode `-threads` gains nothing (`OneInFlight`), and
what two workers do to each other (section 4) needs the console.
The server's threads are those of `RequestServer`; the writer puts each answer
under its id, an error under the overriding key.  Of mongoose only this is
modelled: posts come while it polls.  `PostsAssumption` is that a post with the text
the listener looks for is a stop for the server; the reverse is *not* assumed.

`FaceSpec` is the same daemon with the runner of `face_matcher`, whose `run` writes
nothing (`FaceMatcher.cpp:37`, `RunNothing`).

**Flags** (`processing/Flags.cpp`).  `validateInput` word by word, then its final
checks; `Validate` is the next input given to the same object.  A word is a flag
or a value, with its text.  `Table[program]` is what a program registered with
the setters, which refuse a flag of two kinds (`FlagsAssumption`).  **PatternMatcherFlags** is the
table of the pattern matcher's requests and `validateRequest`; **DaemonFlags** is
the table of the command line and what `Daemon::run` derives from it.

**PatternDB** (`db/DBDriver.cpp`, `PatternDBConnector.cpp`, `PatternTrainer.cpp`,
`PatternExtractor.cpp`, `sql/script.sql`).  `users`, `patterns`, `descriptors`,
`trainers` and `scenarios` are the tables; a file is its place in the sorted
directory and `level`, how often it was compressed; a stored trainer is the list
of the patterns it was trained on.  A program takes a command line (`Start`) and
then one step per object it saves, so another program may run between two of its
objects.  A save that fails leaves what its statements did before
(`SavePatternFails`: nothing, or a row and a compressed file).  Positions are
written by `LinkPattern` and read by `NthPattern`.  `LookupPatterns` has the ways
`getUserPatterns` goes wrong: an error it hides, and a `PQclear` of a result it
never had.  *Left out*: statements of two programs within one save, large objects
no row refers to, the temporary files of the loads, the label of a pattern.  A
statement takes effect at once, so rows appear in the order of their ids; what
PostgreSQL does with two inserts that overlap (the higher id may be visible
first) is outside the model, and so are the ids a failed insert uses up, since
only their order matters.

**TempFiles** (`TempDirCleaner.cpp`, `DirCleanerWorker.cpp`, `Files.cpp`,
`SerializableFlannBasedMatcher.cpp`, the loads of `DBDriver.cpp`).  `dir` is what
each file of the directory holds (whose data, compressed or not), `queue` and
`cleaner` the thread that deletes by name, `pc` the step of the load in progress.
There is one load at a time, since the cache holds its mutex around it; the
thread runs between any two of its steps.  An export may fail after it wrote
(`ExportIf`, `GiveUp`).  A file missing when it is read ends the process
(`FileMissing`); the next one (`Restart`) finds the directory as it was and an
empty queue.  `loadIndex` of a missing file may throw or leave the index unset:
both are steps.  *Left out*: the delay of a deletion, which no caller asks for,
and a second process in the directory at the same time.

**Runners** (`OCR.cpp`, `FaceDetector.cpp`, `FaceMatcher.cpp`,
`Worker.cpp`).  Each worker owns a runner with the fields `reqID`, `inputError`,
`lastError`, `active`; `Take`, `Validate` and `RunOutput`/`RunError`/`RunNothing`
are the three steps of `Worker::start`, and `Throw` is an exception that leaves
the thread.  `Checks` is the order in which `validateRequest` looks at the flags,
`Tried` and `Chosen` what the combined daemon's `Pair` makes of two services.
*Left out*: what is recognised, which is OpenCV's and Tesseract's.

## 3. The runs

`tlc -config <run>.cfg <module>`; two workers, none takes longer than 90 s.

| run | instance | question |
|---|---|---|
| `MCCaches` (pass) | 3 trainers or 3 scenes, places for 2, lives to 3, any uninitialised key | do the records of the cache agree, is the victim nearly the least used, do patterns follow an eviction, is it a bounded cache |
| `MCWorkers` (pass) | 2 workers, every sequence of up to 2 of 9 requests, 2 trainers, 1 place | is each request in one place, is each served |
| `MCSingleWorker` (pass) | 1 worker, every triple of 9 requests, a place for each trainer | does what was removed stay out |
| `MCReportRace` (violation) | 2 workers, 2 requests, a place for each trainer | is a report of its own request: no, another worker's operation comes before it is read |
| `MCRequestServer` (pass) | 3 requests and 2 stops in any order, 2 workers, queue of 2 | is nothing lost, does a stop end the daemon, does it implement `Service` |
| `MCHTTP` (pass) | 2 workers, 3 requests (one fails) and a stop, in any order, ids that start again after 1 | do ids stay in range, does an error reach one client, is no wake-up of the listener lost, is every request it takes answered, does everything end |
| `MCHTTPStops` (pass) | 2 workers, 2 requests (one fails), 2 stops and one that is a stop for the server alone | does each client get its own answer, is one request at a time in the daemon, is nobody stranded behind a stop |
| `MCFlags` (pass) | a table with every kind of flag and rule, every input of up to 4 words; every combination of the pattern matcher's flags; every combination of a daemon's input, output and connection flags; then one more input | is the verdict the documented one, are values its own, can what is accepted be run |
| `MCPatternDB` (pass) | 2 programs, 4 runs of any of 17 command lines, 2 files | do references hold, is a position one pattern, and the one trained there, is what is told saved |
| `MCCompressedTwice` (violation) | 1 program, the same | can what is stored be read: no |
| `MCTempFiles` (pass) | 3 loads of 2 trainers and 2 single files, three of them with one id; 1 restart | is a load what was asked for, is a file lost only to an earlier deletion, is none forgotten, does the end get past the cleaner |
| `MCRunners` (pass) | 4 daemons, 2 workers, every sequence of 3 requests of 11 kinds | is an error text true, is an output of its own request |

### The bounds, and why they are enough

* Three trainers and two places are the least where a full cache has a victim, a
  survivor and a newcomer; `MaxLife` only has to exceed what one load earns
  (`life + loadingTimeWeight * 1` = 3), so hits, ties and zero lives all occur.
  In `MCCaches` a behaviour uses trainers or scenes: the two share the report
  alone, and no property of that run is about it.
* Two workers are enough for a step of another worker between any two of one's
  own; every pair of requests includes each action against each other one and
  itself.  `MaxLife = 100` in these runs is never reached.
* A queue of two and two workers make the main thread block on the nulls, on
  a request and not at all, and let a null wait behind a request.  A second stop is one that is never read.
* `IntMax = 1` makes every id after the first one that was used before; 9 is more
  than there are posts.  The five posts of `MCHTTPStops` have a request that
  succeeds, one that fails, a stop, a second one behind it and one on which
  listener and server disagree, in every order; two workers and a queue of one
  are more than one request at a time can fill.
* Four runs are the least in which patterns are saved, trained, saved again and
  linked, or linked by a second trainer while the first links them; each may
  fail at any statement.  The two programs are interchangeable (`SYMMETRY`).
* `Later` in `MCFlags` bounds the second input to short ones: they show what
  an earlier input left behind.
* Three loads in `MCTempFiles` are the least with an object loaded, another of the
  same id loaded over its file, and the first once more; the shared id is a
  trainer's, a scene's and a pattern's.  One restart shows what a second process
  finds; a third finds nothing else.
* Three requests in `MCRunners` let a worker carry a field over a request that
  does not touch it; two workers show that it stays with its runner.  The eleven
  kinds take each branch of the validations: good, rejected by `Flags`, by a check
  after it, throwing, for the other service, for both.  The workers are
  interchangeable (`SYMMETRY`).
* `MaxPuts` bounds the semaphore in the map's own specification and plays no part
  in the HTTP runs, where the posts bound it.

Deadlock is checked unless the configuration says otherwise: the pattern matcher
stops when its requests are served, a server when it was stopped or its clients
are silent.

### Fairness

`PatternMatcher`, `RequestServer` and `HTTPServer` assume weak fairness of each
thread: the operating system runs a thread that can run.  In `HTTPServer` the handler
is a part of the polling thread, and with one getter nothing competes for a post of
the semaphore.  Nothing makes a message arrive or a client post.  `TempFiles` assumes
weak fairness of the load, of the end of the process and of the cleaner; nothing makes
anyone ask for a load, end or start the process.  `Joins` needs it of the cleaner.

## 4. What the code does not keep

The violation runs of section 3 are in `PROJECT.json` with the lines they
contradict: with two workers a report is overwritten or taken before it is read
(`MCReportRace`; `SFBMCache.cpp:213`, `SFBMCache.hpp:145`), and a file saved twice is
stored compressed twice (`MCCompressedTwice`; `DBDriver.cpp:833`).  The first needs
requests that run together: two lines of the console, not two HTTP clients.

Not contradicted by any text, but worth knowing: with two workers a remove may run
before the add that came before it (`Worker.cpp:21`), so `RemovedStaysOut` is checked
and proved for `-threads 1` only; the default is four (`Daemon.hpp:159`).  A client
that waits for its answer is not affected, nor is an HTTP client, until ids come
round.

More configurations, not part of the regular runs, show by the same means
(`tlc -config X.cfg` on the module of their kind; with `-continue` where the
configuration has several properties) what else was met:

| configuration | property | what happens |
|---|---|---|
| `MCDiscardReport` | `OwnReports` | a discarded trainer is reported with the id of an earlier request, with one worker too (`SFBMCache.cpp:82`) |
| `MCStatusRace` | `StatusAddsUp` | with two workers a status mixes two moments of the cache (`SFBMCache.cpp:118`) |
| `MCIdWrap` | `OwnAnswer` | ids come round while old answers are still in the map (`HTTPListener.cpp:82`; `HTTPListener.hpp:20`) |
| `MCSpacedStop` | `ListenerStops` | `"action": "stop"` with a space stops the server and not the listener (`HTTPListener.cpp:70`; `HTTPListener.hpp:36`) |
| `MCFaceUnanswered` | `AllAnswered` | the request of a `face_matcher` is never answered, and the thread that polls waits for ever (`FaceMatcher.cpp:37`) |
| `MCCacheSizeZero` | `WithinCacheSize` | `-cacheSize 0` is accepted, and trainers are stored (`SFBMCache.cpp:289`) |
| `MCVictim` | `VictimIsLowest` | a hit raises the life of a trainer after the lowest was recorded, so the victim need not be the least used (`SFBMCache.cpp:64`; `SFBMCache.hpp:62`) |
| `MCStickyRemoved` | `RemovedOnlyWhenFull` | an add that removes nothing reports the trainer an earlier request removed (`SFBMCache.cpp:218`; `README-PatternMatcher.txt:61`) |
| `MCEnds` | `StaysUp` | `-reqID r001`, of the README's examples, makes `stoi` throw (`PatternMatcher.cpp:219`); the detector uses the null pattern of a failed load (`BasicFlannDetector.cpp:106`) |
| `MCOverriding` | `OverridingIsAlone` | an overriding flag is accepted after others (`Flags.cpp:283`; `Flags.hpp:47`) |
| `MCStatusRequest` | `StatusIsRunnable` | the status request of the README is rejected: its flag wants a value (`PatternMatcher.cpp:67`) |
| `MCTrainersKeep` | `TrainersKeepPatterns`, `PositionsMatchAnyTraining` | storing a second trainer of a user with `-savePatterns` takes the patterns from the first (`DBDriver.cpp:1003`), and counts all patterns of the user, also for a trainer made of `-patternsId` (`PatternDBConnector.cpp:373`; `README-PatternTrainer.txt`) |
| `MCFileTaken` | `FilesStay` | the deletion asked for by one load takes the file of the next load of that id (`DirCleanerWorker.cpp:36`; `SerializableFlannBasedMatcher.hpp:45`) |
| `MCStaleError` | `ErrorIsOfThisRequest`, `SelectedAnswers` | a face detector answers a good request with the error of an earlier one (`FaceDetector.cpp:28`; `CommandRunner.hpp`); a rejected OCR request is answered by the face detector (`Pair.hpp`) |
| `MCUsage` | `StaysUp` | the usage of `HelpOCR.cpp`, a language by name or no request id, makes `stoi` throw |

Without a run of their own: the category asked for is "landscapes" and the script
has "landscape", the table of histograms is "histrograms" and the script has none,
and their file names get ".xml" twice, so neither histograms nor landscapes can be
saved; `-index` excludes `-path`, which an example of `README-PatternDBConnector.txt`
gives with it; `-load -histograms` and `-load -landscapes` fail for every user who
has one.  `PatternDB` has each of these as the code has it.

`-cacheNoDiscardLessValuable` of the READMEs is not registered (`Daemon.hpp:110`
has another name), so no daemon turns discarding off: the daemon-level runs
have it on.

## 5. What is proved

`tlapm` checks every theorem to the last leaf.  The assumptions are those the
modules name, each evaluated by TLC: ids and sizes are integers, sets of threads
are finite, a message's number tells it from the others and from a null.

| module | theorem | for every | argument |
|---|---|---|---|
| `SFBMCacheProofs` | `TypeCorrect` | configuration | one step per action |
| | `MatchersSafe`, `ScenesSafe` | positive size | `MatchersInv`: consistency and the bound are not inductive alone, since an eviction erases whatever `lowestLifeKey` names; one needs that in a full cache it names a cached trainer of nearly the lowest life.  An unload may erase the named trainer, but leaves a place free, and every load that fills the cache ticks and names another |
| | `MatchersRefine`, `ScenesRefine` | positive size | under the invariant each action is an `Add`, a `Replace`, a `Remove` or a stutter |
| | `ValuableKept` | positive size | the test of the discard compares with the victim, which the invariant says is the trainer that leaves |
| | `PatternsLeaveWithTrainer` | positive size | an eviction reads `lowestLifeKey` for the trainers and again for the patterns; under `MatchersInv` both name the same cached trainer |
| `PatternMatcherProofs` | `WorkersUseCache`, `WorkersKeepCache`, `WorkersRefine` | number of workers, requests | each step of a worker is an operation of the cache or leaves it alone; the cache's theorems then hold of the daemon |
| | `WorkersKeepPatterns` | number of workers, requests, positive size | `PatternsLeaveWithTrainer` and `ValuableKept` of the cache the workers use |
| | `WorkersTypeCorrect`, `RequestsConserved` | number of workers, requests | `RequestsInv`: a worker is at a step of its own request's action and has an index left where the step takes one; `NumbersInv`: requests are popped in order, so those popped are the first numbers, each in one worker's hands or answered once |
| | `WorkersProgress` | number of workers, requests | `StepsLeft`, a natural number for each worker: ten for each index left and the rank of its step.  A step takes one request from the queue, or lowers it for one worker and for no other, or adds one pattern to one trainer and moves nobody; so a match whose patterns another worker's eviction took away loads them again no more often than the others have steps |
| | `RemovedIsOut` | one worker | `OrderInv` and `DeletesInv`: the answers are in the order of the requests, and the indexes a request has left are the last of those it names, so one that is cached again was loaded by a later request |
| `RequestServerProofs` | `ServerTypeCorrect`, `ServerLeavesNothing`, `ServerServes` | workers, capacity, messages | `Drains`: once the stop was read the queue is requests followed by nulls, and the nulls pushed, still to push and taken add up to the workers; so when all have ended no request is left before them |
| | `ServerKeepsOne` | workers, capacity, messages | `PlacesInv`: the unread messages, the queue, the workers, the output and the answers are disjoint, and none holds a request twice; each step takes the first of one queue and puts it in one other place |
| | `ServerNeverStuck` | workers, capacity, messages | `NullsSuffice`: the nulls in the queue and left to push are one for each worker that has not ended, and those in the queue are its last.  So a full queue has a worker to pop from it, and a join waits only for workers that have something to pop |
| | `ServerProgresses` | workers, capacity, messages | after the stop the natural number `ToDo` (nulls to push, elements of the queue, workers that run, output, places of the main thread, each weighted by the steps it is from the end) goes down at every step of a thread |
| `PatternDBProofs` | `TypeCorrect`, `OnePatternEach`, `PositionsAreTrained` | programs, command lines, files, runs | `PositionsInv`: positions, trainers and the lists of the loops are all about the rank of a pattern among its user's patterns (`IsNth`).  A rank never changes: a new row comes last, an update touches neither user nor category, nothing deletes.  That `ORDER BY id` gives the pattern of each rank is a pigeonhole over finite sets (`RankedIs`) |
| | `ToldIsTrue` | programs, command lines, files, runs | `SavingInv`: the files a run has passed are saved and the rest are still listed; nothing deletes a row of descriptors or changes its user, so what is saved stays saved whatever the other programs do |
| `HTTPServerProofs` | `MapTypeCorrect`, `OneGetterWakes` | keys, values, puts, one getter | of the map by itself: every put posts, and the one getter that takes a post looks afterwards |
| | `HTTPTypeCorrect`, `HTTPServes` | workers, posts | each step is one of the server or leaves it alone; no assumption on the stops or on the number of posts |
| | `StrandsNone` | workers, posts no more than an int counts | from `OneInv` below: what is still unread when the server has stopped is the request of the handler, which tested `running` after its push and put its own answer |
| | `ErrorsReachOne` | workers, posts | `ErrorsInv`: an error is in one of the map (under the overriding key alone), the hands of the handler or the answers; the writer brings each once, since a message is in one place (`PlacesInv` of the server).  Ids may repeat |
| | `AnswersAreOwn`, `OneAtATime` | workers, posts no more than an int counts | `OneInv`: while the listener is on, only the handler's request is on its way, or its answer is in the map or with the handler; once it is off the server reads a stop next or nothing more, so no answer comes but "stop received"; ids only grow, so no key of an earlier request comes again.  The bound on the posts is needed: `MCIdWrap`.  Whether listener and server agree on stops plays no part |
| | `HTTPGetterWakes` | workers, posts | the same in the whole daemon (`GetterInv`): the answer put before the handler looks is found by the look, the one put after it posts |
| | `HTTPServerNeverStuck` | workers, posts no more than an int counts, with distinct numbers, on whose stops listener and server agree (`StopsAgree`) | `WaitInv`: while the listener is on, what the handler waits for is on its way through the server, which is then not stuck (`ServerNeverStuck`), or is in the map, and then the handler has a post to take; once it is off, `AnswersAreOwn`'s invariant gives the handler "stop received".  `StopsAgree` is needed: `MCSpacedStop` |
| `TempFilesProofs` | `TempTypeCorrect`, `LoadsTheRightObject` | objects, ids, loads, restarts | `OwnFiles`: from its export until the load is done a file it uses is its own object's or is missing, since a load is alone, and the cleaner only takes away |
| | `LossesWerePending` | | `LossInv`: names come into the queue only after the last use of the file, so one the cleaner has in hand while the file is in use was there at its export |
| | `NoFileForgotten` | | the end is the last of the queue (`EndsLast`), so when the cleaner has ended there is no name left |
| | `CleanerNeverStuck`, `CleanerProgresses` | | the end is in the queue until the cleaner takes it, so while the destructor waits the cleaner can go on or has ended; every step then takes from the natural number `ToClean` |
| `FlagsProofs` | `TypeCorrect` | tables, inputs of any length | first part of `WordsInv` |
| | `VerdictsAreRight` | tables, inputs | `WordsInv` says of the words looked at so far what the property says of the input: the flags found are the names among them, each once, all registered, all values behind a flag that takes some; `expectingFlag`, `valuesFound` and `flag` are about the last one (`Switches`, `LastInv`), and a rejected input is not good whatever follows.  `requiredFlagsFound` counts by the cardinality of what was found |
| | `ValuesAreOwn` | tables, inputs | `ValuesInv`: the values of a flag are the words from behind it up to the next flag or to the word in hand; no flag comes twice |
| | `RequestsRun` | inputs, with the table of the PatternMatcher | the incompatible pairs leave one action; an accepted flag with values has at least one |
| | `DaemonsAgree` | inputs, with the table of a daemon | the pairwise dependencies and exclusions, of the flags of an accepted input |
| `RunnersProofs` | `RunnersTypeCorrect`, `ErrorTextsTrue`, `OutputsAreOwn` | programs, workers, queues of requests | `RunnersInv`: after a validation the fields are what `Fields` makes of the request in hand, and an error kept from before is true of a request the same worker popped |

The positive sizes are needed: `MCCacheSizeZero`.

*One worker.*  `RemovedIsOut` is false of two: see section 4.

*Checked first.*  The inductive invariants and the formulas `NeverStuck`,
`NullsSuffice`, `StopProgresses` and `HTTPNeverStuck` were checked by TLC on the
instances of `MCRequestServer` and of the HTTP runs before they were proved.

*Flags.*  A program's table is assumed to be what the setters can register, and a
word to be a flag or a value with a text; no bound on the length or the number of
the inputs.  `RequestsRun` and `DaemonsAgree` take the tables from
`PatternMatcherFlags` and `DaemonFlags`.

*Only model-checked*: liveness (`AllServed`, `StopEnds`, `AllAnswered`, `Shutdown`,
`ListenerStops`, `Joins`), which TLAPS does not prove under fairness.  Two theorems
stand behind it where the code allows them: the threads are never stuck, and each
step takes from a natural number.  Both are proved for `StopEnds`
(`ServerNeverStuck`, `ServerProgresses`) and `Joins` (`CleanerNeverStuck`,
`CleanerProgresses`), where only the step from there to the end under weak fairness
is TLC's; for `AllServed` the second is (`WorkersProgress`; that a worker in the
middle of a request has a step is `ENABLED`), for `AllAnswered` and `Shutdown`
the first (`HTTPServerNeverStuck`).  Every other property of a passing run is
stated by a theorem.  `VictimIsCached`,
`SceneVictimIsCached`, `ScenesBounded` and the type invariants of the map and of
`TempFiles` are proved, or parts of what is, and have no run of their own.

## 6. What is not modelled

The components of `PROJECT.json` with status `not_modelled`, each with its reason.
OpenCV and Tesseract are external and appear as nondeterministic
answers, if at all, mongoose as the loop that calls the handler; so does PostgreSQL, but for what its statements do to the
tables of `PatternDB`.  Texts (JSON, error messages, help, logs)
are kept only as far as a property tells them apart.  Reading a console whose
input has ended, several requests to the TCP modes the code has given up,
`-threads 0`, and the second `close` of an output (behind the join of the writing
thread, so nobody sees it) have no model.  Nor are two daemons of one program that share a temporary
directory.  `FaceDBConnector`, `FaceTrainer` and `FaceExtractor` are empty: they
register no flag and `run` returns at once.

Most lines of the repository are third-party (`lib/tbb42_20131118oss`,
`lib/mongoose.c`, QuickLZ) or straight sequences of OpenCV calls.  TBB is used for
its bounded queue alone, which `RequestServer` has as a sequence with a capacity.
The lines mapped are those of the repository's own code.

## 7. The plan

Done: the cache, the pattern matcher on it, the server, the map and the HTTP front
end, the flags, the pattern database, the temporary files, the other daemons'
requests, with their proofs.  What is left, in this order:

1. `TempFiles` under the loaders of `SFBMCache`: a load that fails or ends the
   process as `TempFiles` has it, for the nondeterministic answers of today.  The
   product is large for TLC; the theorems of both give most of it already.
2. The flags OCR and the face daemons add to `DaemonFlags`.
3. A measure for the HTTP front end, as `ToDo` is for the server:
   the posts yet to come, the turns of the handler and what is on its way.
