---------------------------- MODULE MCSpecOptions ----------------------------
(***************************************************************************)
(* Instances of SpecOptions: an image with any environment of two          *)
(* variables, and one with a fixed config.                                 *)
(***************************************************************************)
EXTENDS SpecOptions

CONSTANTS img1, img2, Keys2, Values, MaxLen, MaxGiven

\* The image sets a variable to a value that neither the defaults nor the
\* options before use.
Entry == [key : Keys2, val : {"img"}]

\* Lists that name no variable twice.
Lists(S, len) ==
    {e \in BoundedSeq(S, len) : \A m, n \in DOMAIN e : e[m].key = e[n].key => m = n}

PathOnly == <<[key |-> "PATH", val |-> "bin"]>>

\* Lists that name a variable twice only to set it twice.
MCEnvs ==
    {e \in BoundedSeq([key : Keys2, val : Values \cup {NoValue}], MaxGiven) :
        \A m, n \in DOMAIN e : e[m].key = e[n].key /\ e[m].val = NoValue => m = n}

MCArgs == {<<>>, <<"sh">>}

Says(env, user, stop) ==
    [entry |-> <<"init">>, cmd |-> <<"serve">>, env |-> env, dir |-> "", user |-> user, stop |-> stop]

\* With a known user and an unknown one, and a manifest without attributes.
Varied ==
    {[runtime |-> TRUE, says |-> Says(env, "app", "")] : env \in Lists(Entry, MaxLen)}
    \cup {[runtime |-> TRUE, says |-> Says(<<>>, "nobody", "SIGINT")], [runtime |-> FALSE, says |-> NoConfig]}

Fixed == [runtime |-> TRUE, says |-> [Says(PathOnly, "", "SIGQUIT") EXCEPT !.dir = "/srv"]]

MCConfigs == {[i \in Image |-> IF i = img1 THEN c ELSE Fixed] : c \in Varied}
=============================================================================
