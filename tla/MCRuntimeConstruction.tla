------------------------ MODULE MCRuntimeConstruction ------------------------
EXTENDS RuntimeConstruction, TLC

CONSTANTS r1, r2, q1, q2

TwoWorkers == <<"requests", "responses">>

\* A dictionary with the registry inside 'kafka', and one with the registry at
\* the top level, where a variable may change it, and with another topic.
Whole == "kafka.group" :> "g" @@ "kafka.registry.url" :> "here"
Apart == "kafka.group" :> "g" @@ "registry.url" :> "here"
         @@ "runtime.requests" :> "renamed"
Empty == <<>>

FirstBases == {Whole, Apart}
FirstFiles == {Empty, "kafka.replication" :> 0}
FirstEnvironments ==
    {Empty, "kafka.group" :> "digits" @@ "registry.url" :> "bad",
     "registry.url" :> "bad", "runtime.requests" :> "responses"}

\* The second runtime is of the next release.  Its file lacks the registry.
SecondBases == {Empty}
SecondFiles == {"kafka.group" :> "g"}
SecondEnvironments == {Empty, "registry.url" :> "here"}

AllBases == r1 :> FirstBases @@ r2 :> SecondBases
AllFiles == r1 :> FirstFiles @@ r2 :> SecondFiles
AllEnvironments == r1 :> FirstEnvironments @@ r2 :> SecondEnvironments

\* Only the requests have another schema in the next release, which is
\* compatible with that of this one but not the other way round.
Releases == r1 :> ("requests" :> q1 @@ "responses" :> q1) @@
            r2 :> ("requests" :> q2 @@ "responses" :> q1)
Upgrades == {<<q2, q1>>}
=============================================================================
