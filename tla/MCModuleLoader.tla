--------------------------- MODULE MCModuleLoader ---------------------------
(***************************************************************************)
(* ModuleLoader with one native module, two or three files and one name    *)
(* that cannot be loaded.  Import lists have at most two entries, so that  *)
(* a failure can come after a success.                                     *)
(***************************************************************************)
EXTENDS ModuleLoader

N == "Magic"
F == "f.js"
G == "g.js"
H == "h.js"
X == "missing"

MCNatives == {N}
MCFiles == {F, G}
MCOtherNames == {X}

UpTo2(S) == {<<>>} \cup {<<a>> : a \in S} \cup
            {<<a, b>> : a \in S, b \in S}

\* No duplicate import in one list: the second would be found like the first.
Lists(S) == {s \in UpTo2(S) : Len(s) = 2 => s[1] # s[2]}

\* f and g import each other, and perhaps the native module, themselves or a
\* name that cannot be loaded.
CyclicTexts ==
    {t \in [MCFiles -> Lists(MCNatives \cup MCFiles \cup MCOtherNames)] :
        /\ \E i \in DOMAIN t[F] : t[F][i] = G
        /\ \E i \in DOMAIN t[G] : t[G][i] = F}

\* Scripts given to eval: each file, the native module, and lists in which
\* the second import is the one that fails or is found already loaded.
CyclicRootTexts == {<<F>>, <<N>>, <<N, F>>, <<F, X>>}

\* Three files: f imports g, g imports h, and h none, g or f, so that there
\* is no circle, one below f, or one through all.  After that, f imports h
\* itself or a name that cannot be loaded, and g the native module or such a
\* name.
ThreeFiles == {F, G, H}
FirstFile == {<<G, H>>, <<G, X>>}
SecondFile == {<<H, N>>, <<H, X>>}
ThirdFile == {<<>>, <<N>>, <<G>>, <<F>>}
ThreeTexts ==
    {t \in [ThreeFiles -> FirstFile \cup SecondFile \cup ThirdFile] :
        t[F] \in FirstFile /\ t[G] \in SecondFile /\ t[H] \in ThirdFile}
ThreeRootTexts == {<<F>>, <<H>>, <<G, F>>}
=============================================================================
