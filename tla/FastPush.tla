------------------------------ MODULE FastPush ------------------------------
(***************************************************************************)
(* "cog push --x-fast" after its build (pkg/docker/fast_push.go): the      *)
(* weights, the system packages, the Python packages and the sources are   *)
(* uploaded by one goroutine each (pkg/monobeam/client.go), then the       *)
(* server challenges cog to show that it has the files (pkg/web/client.go, *)
(* again one goroutine each), and then the version is posted.              *)
(*                                                                         *)
(* A key names a file that is uploaded: a weight file of the project, or   *)
(* one of the three tarballs.  A digest is a pair of a kind and a content. *)
(* The server is external: it answers a digest it has verified with a      *)
(* conflict, and verifies an upload in its own time: what cog sees of that *)
(* is chosen when it asks.                                                 *)
(***************************************************************************)
EXTENDS FastGenerator

CONSTANTS MaxPolls   \* polls of a verification (100 in the code)

ASSUME PushAssumption ==
    /\ MaxPolls \in Nat
    /\ Files \cap {"main", "apt", "python", "src"} = {}

VARIABLES tarballs,  \* .cog/tarballs: the tars made from an image
          ups,       \* the uploads of this push
          chal,      \* the challenges of this push
          server,    \* the digests that the server has verified
          posted,    \* the version that this push posted
          hung       \* the goroutines that wait for ever for an answer

pushVars == <<tarballs, ups, chal, server, posted, hung>>
vars == <<genVars, pushVars>>

Keys == Files \cup {"apt", "python", "src"}
Idle == [pc |-> "none", digest |-> None, sent |-> None, polls |-> 0]
NoUploads == [k \in Keys |-> Idle]
NoChallenges == [k \in Keys |-> "none"]
NoTarballs == [python |-> None, src |-> None]

PushInit ==
    /\ tarballs = NoTarballs
    /\ ups = NoUploads /\ chal = NoChallenges
    /\ server = {} /\ posted = None /\ hung = {}

Init == GenInit /\ PushInit

Pushing == {"built", "apttar", "pythontar", "srctar", "wait", "challenge",
            "answers", "post"}
UserOnly == <<cfg, found, aptFile, image, edits, pushes, project, cache>>

Live(k) == ups[k].pc \notin {"none", "done", "failed"}

\* The keys of this push and the digests that it promises for them.
Chosen == {k \in Keys : ups[k].pc # "none"}
Promised == {<<k, ups[k].digest>> : k \in Chosen}

Started(d) == [Idle EXCEPT !.pc = "start", !.digest = d]
Ended(d, how) == [Idle EXCEPT !.pc = how, !.digest = d]

-----------------------------------------------------------------------------
(* The main goroutine                                                      *)

\* weights.json as the build left it gives the weights to upload.
ReadFastWeights ==
    /\ \/ /\ Goto("built", "apttar")
          /\ cache.weights # Torn
          /\ ups' = [k \in Keys |->
                       IF k \in Files /\ ReadWeights[k] # None
                       THEN Started(<<"weights", ReadWeights[k]>>)
                       ELSE ups[k]]
       \/ Goto("built", "failed") /\ cache.weights = Torn /\ UNCHANGED ups
    /\ NoFault
    /\ UNCHANGED <<UserOnly, tarballs, chal, server, posted>>

\* Any tarball that is in the directory may count as the current one.
CurrentAptTarball(t) == t \in cache.apt \/ (t = None /\ cache.apt = {})

UploadAptTarFile ==
    /\ Goto("apttar", "pythontar")
    /\ \E t \in cache.apt \cup {None} :
          /\ CurrentAptTarball(t)
          /\ ups' = IF t = None THEN ups
                    ELSE [ups EXCEPT !["apt"] = Started(<<"apt", t>>)]
    /\ NoFault
    /\ UNCHANGED <<UserOnly, tarballs, chal, server, posted>>

\* The container that is run on the image overwrites the tarball.
CreateTarFile(name, content, from, to) ==
    \/ /\ Goto(from, to)
       /\ tarballs' = [tarballs EXCEPT ![name] = content]
       /\ ups' = [ups EXCEPT ![name] = Started(<<name, content>>)]
       /\ NoFault
    \/ Goto(from, "failed") /\ Fault /\ UNCHANGED <<tarballs, ups>>

CurrentRequirements == cache.reqs # None

\* The Python packages are uploaded when the requirements were ever copied;
\* otherwise an old tarball of them is removed.
CreatePythonPackagesTarFile ==
    /\ IF CurrentRequirements
       THEN CreateTarFile("python", image.reqs, "pythontar", "srctar")
       ELSE /\ Goto("pythontar", "srctar")
            /\ tarballs' = [tarballs EXCEPT !.python = None]
            /\ NoFault /\ UNCHANGED ups
    /\ UNCHANGED <<UserOnly, chal, server, posted>>

CreateSrcTarFile ==
    /\ CreateTarFile("src", image.src, "srctar", "wait")
    /\ UNCHANGED <<UserOnly, chal, server, posted>>

\* Mutant: the uploads are not waited for.
NotWaited == TRUE

\* Mutant: an upload that failed is waited for.
WaitedForDone == \A k \in Keys : ups[k].pc \in {"none", "done"}

Waited == \A k \in Keys : ~Live(k)

Wait ==
    /\ Waited
    /\ \/ Goto("wait", "challenge") /\ \A k \in Keys : ups[k].pc # "failed"
       \/ Goto("wait", "failed") /\ \E k \in Keys : ups[k].pc = "failed"
    /\ NoFault
    /\ UNCHANGED <<UserOnly, pushVars>>

InitiateChallenges ==
    /\ Goto("challenge", "answers")
    /\ chal' = [k \in Keys |-> IF k \in Chosen THEN "asked" ELSE "none"]
    /\ NoFault
    /\ UNCHANGED <<UserOnly, tarballs, ups, server, posted>>

\* One challenge: the range of the file that the server asks for is hashed,
\* and the answer is appended under the mutex.
DoSingleFileChallenge(k) ==
    /\ chal[k] = "asked"
    /\ \/ /\ chal' = [chal EXCEPT ![k] = "answered"]
          /\ k \in Files => project.files[k] # None
          /\ NoFault
       \/ /\ chal' = [chal EXCEPT ![k] = "failed"]
          /\ IF k \in Files /\ project.files[k] = None
             THEN NoFault ELSE Fault
    /\ UNCHANGED <<UserOnly, pc, tarballs, ups, server, posted>>

AnswersWaited == ~\E k \in Keys : chal[k] = "asked"

WaitForAnswers ==
    /\ AnswersWaited
    /\ \/ Goto("answers", "post") /\ \A k \in Keys : chal[k] # "failed"
       \/ Goto("answers", "failed") /\ \E k \in Keys : chal[k] = "failed"
    /\ NoFault
    /\ UNCHANGED <<UserOnly, pushVars>>

PostNewVersion ==
    /\ \/ /\ Goto("post", "posted")
          /\ posted' = [files |-> Promised,
                        answers |-> {k \in Keys : chal[k] = "answered"}]
          /\ NoFault
       \/ Goto("post", "failed") /\ Fault /\ UNCHANGED posted
    /\ UNCHANGED <<UserOnly, tarballs, ups, chal, server>>

Main ==
    \/ ReadFastWeights \/ UploadAptTarFile \/ CreatePythonPackagesTarFile
    \/ CreateSrcTarFile \/ Wait \/ InitiateChallenges \/ WaitForAnswers
    \/ PostNewVersion

-----------------------------------------------------------------------------
(* UploadFile, one goroutine per key                                       *)

UploadStep(k, from, to) ==
    /\ ups[k].pc = from
    /\ ups' = [ups EXCEPT ![k].pc = to]
    /\ UNCHANGED <<UserOnly, pc, tarballs, chal, server, posted>>

StartUpload(k) ==
    \/ UploadStep(k, "start", "done") /\ ups[k].digest \in server /\ NoFault
    \/ UploadStep(k, "start", "s3") /\ ups[k].digest \notin server /\ NoFault
    \/ UploadStep(k, "start", "failed") /\ Fault

\* What the path holds when it is read.  The tarballs are not touched while
\* cog pushes them.
Read(k) == IF k \in Files THEN <<"weights", project.files[k]>>
           ELSE ups[k].digest

\* The object is sent to S3 and its verification is begun; either may fail.
\* Nothing else can see the state between the two.
UploadObject(k) ==
    /\ ups[k].pc = "s3"
    /\ \/ /\ Read(k)[2] # None \/ k \notin Files
          /\ ups' = [ups EXCEPT ![k].pc = "poll", ![k].sent = Read(k)]
          /\ NoFault
       \/ /\ ups' = [ups EXCEPT ![k].pc = "failed"]
          /\ IF k \in Files /\ Read(k)[2] = None THEN NoFault ELSE Fault
    /\ UNCHANGED <<UserOnly, pc, tarballs, chal, server, posted>>

\* The server compares what it was sent with the digest it was promised.
GoodVerdict(u) == u.sent = u.digest

PollsLeft(u) == u.polls < MaxPolls

\* A poll finds the verification under way, or finished: then it is final.
\* When no poll was, the upload returns without an error.
CheckVerificationStatus(k) ==
    /\ ups[k].pc = "poll"
    /\ LET u == ups[k]
       IN \/ /\ PollsLeft(u)
             /\ ups' = [ups EXCEPT ![k].polls = @ + 1]
             /\ NoFault /\ UNCHANGED server
          \/ /\ PollsLeft(u)
             /\ ups' = [ups EXCEPT ![k] = Ended(u.digest,
                          IF GoodVerdict(u) THEN "done" ELSE "failed")]
             /\ server' = server \cup
                             (IF u.sent = u.digest THEN {u.digest} ELSE {})
             /\ NoFault
          \/ /\ PollsLeft(u) /\ Fault
             /\ ups' = [ups EXCEPT ![k].pc = "failed"]
             /\ UNCHANGED server
          \/ /\ ~PollsLeft(u)
             /\ ups' = [ups EXCEPT ![k].pc = "done"]
             /\ NoFault /\ UNCHANGED server
    /\ UNCHANGED <<UserOnly, pc, tarballs, chal, posted>>

Upload(k) ==
    StartUpload(k) \/ UploadObject(k) \/ CheckVerificationStatus(k)

\* The uploads that the server may have found good without cog knowing.
Unasked == {ups[k].digest : k \in {j \in Keys : /\ ups[j].sent # None
                                               /\ ups[j].sent = ups[j].digest}}

\* The goroutines that still run end with the process.
Gone ==
    /\ pc' = "idle"
    /\ ups' = NoUploads /\ chal' = NoChallenges /\ posted' = None /\ hung' = {}
    /\ cfg' = NoCfg /\ found' = NoWeights /\ aptFile' = None /\ image' = None
    /\ \E late \in SUBSET Unasked : server' = server \cup late
    /\ UNCHANGED <<edits, pushes, project, cache, tarballs>>

\* cog has returned from the push.
Exit == pc \in {"failed", "posted"} /\ NoFault /\ Gone

\* cog is killed, in its build or in the push.
Kill ==
    \/ /\ KillBuild
       /\ hung' = {} /\ UNCHANGED <<tarballs, ups, chal, server, posted>>
    \/ pc \in Pushing /\ Fault /\ Gone

\* Where a goroutine waits for a server or for the docker daemon.
Asks(g) ==
    IF g = "main"
    THEN \/ pc \in {"pull", "docker", "srctar", "post"}
         \/ pc = "apt" /\ cfg.packages # {} /\ ~HaveTarball
         \/ pc = "pythontar" /\ CurrentRequirements
    ELSE Live(g) \/ chal[g] = "asked"

\* The request that g has made is never answered: the HTTP client has no
\* timeout, and nothing cancels the context of the command.
NeverAnswered(g) ==
    /\ g \notin hung /\ Asks(g)
    /\ hung' = hung \cup {g}
    /\ Fault
    /\ UNCHANGED <<UserOnly, pc, tarballs, ups, chal, server, posted>>

Cog ==
    \/ "main" \notin hung /\ Build /\ UNCHANGED pushVars
    \/ "main" \notin hung /\ Main /\ UNCHANGED hung
    \/ \E k \in Keys \ hung :
          (DoSingleFileChallenge(k) \/ Upload(k)) /\ UNCHANGED hung
    \/ Exit

Next ==
    \/ UserEdits /\ UNCHANGED pushVars
    \/ \E local \in BOOLEAN : StartBuild(local) /\ UNCHANGED pushVars
    \/ \E g \in Keys \cup {"main"} : NeverAnswered(g)
    \/ Cog \/ Kill

\* cog runs on as long as one of its goroutines can; nothing is assumed of
\* the servers and the daemon, of the user, or of whether another push is
\* started.
Fairness == WF_vars(Cog)

Spec == Init /\ [][Next]_vars /\ Fairness

-----------------------------------------------------------------------------
(* Properties                                                              *)

\* A version is posted only when the server has verified every file of it,
\* or cog gave up asking about that file: no file whose upload failed, is
\* under way or did not match its digest is in a version, whatever the order
\* in which the goroutines end; and the version comes with the answer to one
\* challenge for each of its files.
PostedIsStored ==
    posted # None =>
        /\ posted.answers = {f[1] : f \in posted.files}
        /\ \A k \in Keys, d \in {ups[j].digest : j \in Keys} :
              <<k, d>> \in posted.files =>
                 d \in server \/ (ups[k].pc = "done" /\ ups[k].polls = MaxPolls)

\* The weights of a version are the ones that its image was built with, with
\* the digests they had then, even if the files changed during the push.
PostedWeightsOfBuild ==
    posted # None =>
        {f \in posted.files : f[1] \in Files} =
            {<<k, <<"weights", found[k]>>>> : k \in Present(found)}

\* The tarballs of a version come from its image, not from an earlier one:
\* the sources, the Python packages if it has any, and the system packages
\* if it has any.
PostedTarsOfImage ==
    posted # None =>
        /\ <<"src", <<"src", image.src>>>> \in posted.files
        /\ image.reqs # None =>
              <<"python", <<"python", image.reqs>>>> \in posted.files
        /\ \A t \in image.apt : <<"apt", <<"apt", t>>>> \in posted.files

\* A push ends, or waits for nothing but requests that are never answered:
\* the other goroutines have all ended, well or with an error, there are no
\* more than MaxPolls polls, and the main one waits only for those that hang.
PushEnds ==
    pc # "idle" ~>
        \/ pc = "idle"
        \/ /\ "main" \in hung \/ (hung # {} /\ pc \in {"wait", "answers"})
           /\ \A k \in Keys : Live(k) \/ chal[k] = "asked" => k \in hung
=============================================================================
