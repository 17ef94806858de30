----------------------------- MODULE SpecOptions -----------------------------
(***************************************************************************)
(* NewContainer of cmd/rcl/commands/run_unix.go and the options it gives to *)
(* the client: which image the container is made of, and how the snapshot, *)
(* the stop signal and the process come from it (aritfact/options).  Other *)
(* clients move the reference meanwhile, unpack images and move the label  *)
(* that keeps a chain, and the daemon collects what nothing holds.         *)
(*                                                                         *)
(* An entry of an environment is a key and a value; an override that is a  *)
(* key alone wants the variable to be unset.                               *)
(***************************************************************************)
EXTENDS Naturals, SequencesExt

CONSTANTS
    Image, NoImage,
    Configs,    \* what the attributes of the manifests may say, by image
    Users,      \* the users that the root file systems know
    NoValue,
    DefaultEnv, \* defaultUnixEnv
    Envs,       \* the environments that the options before may have set
    Args,       \* the arguments of `rcl run`
    MaxMoves    \* bound: how often the reference moves

EnvEntry == [key : STRING, val : STRING \cup {NoValue}]

ASSUME SpecAssumption ==
    /\ NoImage \notin Image /\ MaxMoves \in Nat
    /\ DefaultEnv \in Seq(EnvEntry) /\ \A e \in Envs : e \in Seq(EnvEntry)
    /\ \A c \in Configs, i \in Image : c[i].says.env \in Seq(EnvEntry)

VARIABLES
    ref,       \* what the reference names
    moves,     \* how often it has moved
    content,   \* the images whose blobs are there
    chains,    \* the images whose layers are unpacked
    labelled,  \* those whose chain the gc label of their config names
    leased,    \* whether the run has unpacked its image itself
    taken,     \* whether a snapshot of the container's ID was there before
    config,    \* image -> what its manifest says
    given,     \* the environment of the options before
    args, tty, \* the flags
    pc,        \* where NewContainer is
    image,     \* the image it got
    cOpts,     \* the container options that are left
    container, \* the record it builds: the image of the snapshot, the stop signal, the process
    result

inputs == <<taken, config, given, args, tty>>
daemon == <<ref, moves, content, chains, labelled>>
vars == <<daemon, leased, inputs, pc, image, cOpts, container, result>>

\* Mutated: the process comes before the snapshot.
ContainerOpts_SpecFirst == <<"stop", "spec", "snapshot">>

\* The order of the options in NewContainer.
ContainerOpts == <<"snapshot", "stop", "spec">>

Init ==
    /\ ref \in Image \cup {NoImage} /\ moves = 0
    /\ content = IF ref = NoImage THEN {} ELSE {ref}
    /\ chains \in SUBSET content
    /\ labelled \in SUBSET chains
    /\ leased = FALSE
    /\ taken \in BOOLEAN
    /\ config \in Configs
    /\ given \in Envs /\ args \in Args /\ tty \in BOOLEAN
    /\ pc = "get" /\ image = NoImage /\ cOpts = ContainerOpts
    /\ container = [snapshot |-> NoImage, stop |-> "", process |-> <<>>]
    /\ result = "none"

-----------------------------------------------------------------------------
(* The environment: replaceOrAppendEnvValues.                              *)

Blank == [key |-> "", val |-> ""]

\* cache[k]: the last place of a variable among the defaults, 0 if it has none.
Cache(defaults, k) == SelectLastInSeq(defaults, LAMBDA e : e.key = k)

Override(defaults, results, o) ==
    LET i == Cache(defaults, o.key)
    IN  CASE o.val = NoValue /\ i = 0 -> results
          [] o.val = NoValue /\ i # 0 -> [results EXCEPT ![i] = Blank]
          [] o.val # NoValue /\ i # 0 -> [results EXCEPT ![i] = o]
          [] OTHER -> Append(results, o)

Overridden(defaults, overrides) ==
    LET results[n \in 0..Len(overrides)] ==
            IF n = 0 THEN defaults ELSE Override(defaults, results[n - 1], overrides[n])
    IN  results[Len(overrides)]

\* Mutated: the index is not stepped back, and an entry is left out.
Pass_NoStepBack(s) ==
    IF s.i > Len(s.list) THEN s
    ELSE IF s.list[s.i] = Blank THEN [i |-> s.i + 1, list |-> RemoveAt(s.list, s.i)]
    ELSE [s EXCEPT !.i = @ + 1]

\* One pass of the loop that takes blank entries out of the list it runs over:
\* i-- and i++ leave the index where the next entry has moved to.
Pass(s) ==
    IF s.i > Len(s.list) THEN s
    ELSE IF s.list[s.i] = Blank THEN [s EXCEPT !.list = RemoveAt(@, s.i)]
    ELSE [s EXCEPT !.i = @ + 1]

\* Every pass leaves one entry less to look at.
Kept(results) ==
    LET loop[n \in 0..Len(results)] ==
            IF n = 0 THEN [i |-> 1, list |-> results] ELSE Pass(loop[n - 1])
    IN  loop[Len(results)].list

Merged(defaults, overrides) == Kept(Overridden(defaults, overrides))

-----------------------------------------------------------------------------
(* The options.                                                            *)

NoConfig == [entry |-> <<>>, cmd |-> <<>>, env |-> <<>>, dir |-> "", user |-> "", stop |-> ""]

\* ConfigFromAttributes: a manifest whose annotations say nothing of a runtime
\* counts as one with an empty config.
ConfigOf(i) == IF config[i].runtime THEN config[i].says ELSE NoConfig

\* Mutated: the options look the reference up again.
Chosen_Again == ref

\* The image the options are made with.
Chosen == image

\* oci.WithUser and WithAdditionalGIDs look into the root file system, which
\* the container must have by then.
Resolvable(user) == container.snapshot # NoImage /\ (user = "" \/ user \in Users)

FromImage(c) ==
    [env  |-> Merged(IF c.env = <<>> THEN DefaultEnv ELSE c.env, given),
     args |-> c.entry \o c.cmd,
     cwd  |-> IF c.dir = "" THEN "/" ELSE c.dir,
     user |-> [name |-> c.user, root |-> container.snapshot]]

\* oci.WithProcessArgs replaces all of them, the entry point too.
WithProcessArgs(p) == IF args = <<>> THEN p ELSE [p EXCEPT !.args = args]

Term == [key |-> "TERM", val |-> "xterm"]

WithTTY(p) == IF tty THEN [p EXCEPT !.env = Append(@, Term)] ELSE p

Process == WithTTY(WithProcessArgs(FromImage(ConfigOf(Chosen))))

DefaultSignal == "SIGTERM"

StopSignal == IF ConfigOf(Chosen).stop = "" THEN DefaultSignal ELSE ConfigOf(Chosen).stop

-----------------------------------------------------------------------------
(* NewContainer.                                                           *)

Fail ==
    /\ pc' = "end" /\ result' = "error"
    /\ UNCHANGED <<leased, image, cOpts, container>>

Goto(step) == pc' = step /\ UNCHANGED result

GetImage ==
    /\ pc = "get"
    /\ \/ ref = NoImage /\ Fail
       \/ /\ ref # NoImage
          /\ image' = ref
          /\ Goto("check")
          /\ UNCHANGED <<leased, cOpts, container>>
    /\ UNCHANGED <<daemon, inputs>>

\* RootFS reads the manifest, Stat asks for the whole chain.
IsUnpacked ==
    /\ pc = "check"
    /\ \/ image \notin content /\ Fail
       \/ /\ image \in content
          /\ Goto(IF image \in chains THEN "options" ELSE "unpack")
          /\ UNCHANGED <<leased, image, cOpts, container>>
    /\ UNCHANGED <<daemon, inputs>>

\* Unpack, with all its steps, is the module of that name.
UnpackImage ==
    /\ pc = "unpack"
    /\ \/ image \notin content /\ Fail /\ UNCHANGED <<chains, labelled>>
       \/ /\ image \in content
          /\ chains' = chains \cup {image} /\ labelled' = labelled \cup {image}
          /\ leased' = TRUE
          /\ Goto("options")
          /\ UNCHANGED <<image, cOpts, container>>
    /\ UNCHANGED <<ref, moves, content, inputs>>

\* Every option reads the manifest.
Option(name, possible, field, value) ==
    /\ pc = "options" /\ cOpts # <<>> /\ Head(cOpts) = name
    /\ IF Chosen \in content /\ possible
       THEN /\ container' = [container EXCEPT ![field] = value]
            /\ cOpts' = Tail(cOpts)
            /\ UNCHANGED <<leased, image, pc, result>>
       ELSE Fail
    /\ UNCHANGED <<daemon, inputs>>

WithNewSnapshot == Option("snapshot", Chosen \in chains /\ ~ taken, "snapshot", Chosen)

WithImageStopSignal == Option("stop", TRUE, "stop", StopSignal)

WithSpec == Option("spec", Resolvable(ConfigOf(Chosen).user), "process", Process)

Create ==
    /\ pc = "options" /\ cOpts = <<>>
    /\ pc' = "end" /\ result' = "ok"
    /\ UNCHANGED <<daemon, leased, inputs, image, cOpts, container>>

\* A call to the daemon fails, or Unpack does.
CallFails ==
    /\ pc # "end"
    /\ pc' = "end" /\ result' = "failed"
    /\ UNCHANGED <<daemon, leased, inputs, image, cOpts, container>>

-----------------------------------------------------------------------------
(* Everybody else, until NewContainer has ended.                           *)

others == <<leased, inputs, pc, image, cOpts, container, result>>

\* Another client fetches the reference again, or deletes it.
Move(i) ==
    /\ moves < MaxMoves
    /\ i # ref
    /\ moves' = moves + 1 /\ ref' = i
    /\ content' = IF i = NoImage THEN content ELSE content \cup {i}
    /\ UNCHANGED <<chains, labelled, others>>

\* Another client unpacks an image.
UnpackElsewhere(i) ==
    /\ i \in content \ labelled
    /\ chains' = chains \cup {i} /\ labelled' = labelled \cup {i}
    /\ UNCHANGED <<ref, moves, content, others>>

\* Another client unpacks an image with the same config blob: the label names
\* the chain of that one.
Relabel(i) ==
    /\ i \in labelled
    /\ labelled' = labelled \ {i}
    /\ UNCHANGED <<ref, moves, content, chains, others>>

\* A chain is kept by the lease of the run that has unpacked it, by a snapshot
\* on it, and by its label for as long as the reference keeps the config.
Held(i) ==
    \/ leased /\ i = image
    \/ container.snapshot = i
    \/ i = ref /\ i \in labelled

\* What the reference names stays; the label goes with the config.
Collect(i) ==
    /\ content' = content \ ({i} \ {ref})
    /\ labelled' = labelled \ ({i} \ {ref})
    /\ chains' = IF Held(i) THEN chains ELSE chains \ {i}
    /\ <<content', chains'>> # <<content, chains>>
    /\ UNCHANGED <<ref, moves, others>>

Rest == pc = "end" /\ UNCHANGED vars

Next ==
    \/ GetImage \/ IsUnpacked \/ UnpackImage
    \/ WithNewSnapshot \/ WithImageStopSignal \/ WithSpec \/ Create
    \/ CallFails
    \/ \E i \in Image \cup {NoImage} : pc # "end" /\ Move(i)
    \/ \E i \in Image : pc # "end" /\ (UnpackElsewhere(i) \/ Relabel(i) \/ Collect(i))
    \/ Rest

Spec == Init /\ [][Next]_vars

-----------------------------------------------------------------------------
(* Properties.                                                             *)

\* What a process sees of a variable: the last entry that sets it.
LastOf(env, k) ==
    LET n == SelectLastInSeq(env, LAMBDA e : e.key = k)
    IN  IF n = 0 THEN NoValue ELSE env[n].val

Wanted(c, k) ==
    IF tty /\ k = "TERM" THEN "xterm"
    ELSE IF \E n \in DOMAIN given : given[n].key = k THEN LastOf(given, k)
    ELSE LastOf(IF c.env = <<>> THEN DefaultEnv ELSE c.env, k)

Keys(env) == {e.key : e \in ToSet(env)}

\* "returns the defaults with the overrides either replaced by env key or
\* appended to the list" (options.go:144): each variable of the process has
\* the value that was asked for last, or none if it was to be unset, and no
\* other entry is left.
EnvAsWanted ==
    result = "ok" =>
        LET c == ConfigOf(image)
            env == container.process.env
        IN  \A k \in Keys(env) \cup Keys(c.env) \cup Keys(given) \cup Keys(DefaultEnv) \cup {"TERM"} :
                LastOf(env, k) = Wanted(c, k) /\ k # ""

\* A container is of one image, whatever happens to the reference while it is
\* made: root file system, stop signal, arguments and the files its user is
\* looked up in.
OneImage ==
    result = "ok" =>
        LET c == ConfigOf(image)
        IN  /\ container.snapshot = image
            /\ container.stop = IF c.stop = "" THEN DefaultSignal ELSE c.stop
            /\ container.process.args = IF args = <<>> THEN c.entry \o c.cmd ELSE args
            /\ container.process.user = [name |-> c.user, root |-> image]

\* When NewContainer may refuse: the reference names nothing, or another image
\* than it did; the ID is taken; the user is not one of the image; or the image
\* was found unpacked, and its chain has gone for want of a label.
Reason ==
    \/ ref = NoImage
    \/ image # NoImage /\ ref # image
    \/ taken
    \/ image \notin chains /\ image \notin labelled /\ ~ leased
    \/ ConfigOf(image).user \notin Users \cup {""}

\* "oci.WithImageConfig (WithUsername, WithUserID) depends on access to rootfs
\* [...]. So cOpts needs to have precedence over opts" (run_unix.go:87): when
\* no call fails, no container is refused for the order of its options, nor an
\* image that the run has unpacked itself for what the collector takes while
\* the reference stays.
RefusedForAReason == [][result' = "error" /\ result # "error" => Reason]_vars
=============================================================================
