---------------------------- MODULE MCResources ----------------------------
EXTENDS Resources, TLC

CONSTANTS k1, k2, e1, e2, a, b, t1, t2, short, l1, l2

\* Everything done to two networks by one actor; the same name made and
\* removed by two; addresses; endpoints changed by two; and a network called
\* by a word that the files of names begin with.
OneByOne == [who |-> {k1}, ops |-> {"create", "rm", "prune"}, ids |-> {1, 2}, names |-> {a, b},
             refs |-> {1, 2, a, b, Bridge}, ctrs |-> {e1}, hosts |-> {}]
OneName == [who |-> {k1, k2}, ops |-> {"create", "rm", "prune"}, ids |-> {1, 2}, names |-> {a},
            refs |-> {a}, ctrs |-> {e1}, hosts |-> {}]
Addresses == [who |-> {k1}, ops |-> {"create", "connect", "disconnect", "rm"}, ids |-> {1},
              names |-> {a}, refs |-> {1, Bridge}, ctrs |-> {e1, e2}, hosts |-> {3}]
OneNetwork == [who |-> {k1, k2}, ops |-> {"create", "connect", "disconnect", "rm_f"}, ids |-> {1},
               names |-> {a}, refs |-> {a}, ctrs |-> {e1}, hosts |-> {}]
Prefixed == [who |-> {k1}, ops |-> {"create", "rm", "connect", "disconnect"}, ids |-> {1, 2},
             names |-> {a}, refs |-> {a, AliasPrefix}, ctrs |-> {e1}, hosts |-> {}]
OfStacks == [who |-> {}, ops |-> {}, ids |-> {1, 2}, names |-> {a}, refs |-> {}, ctrs |-> {},
             hosts |-> {}]
MCStackNetMenus == {OfStacks}
MCNetMenus == {OneByOne, OneName, Addresses, OneNetwork, Prefixed, OfStacks}

MCStackVolMenus == {[who |-> w, ops |-> {"create"}, names |-> {a}] : w \in {{}, {k2}}}
MCVolMenus ==
    {[who |-> {k1}, ops |-> VolOps, names |-> {a, b}],
     [who |-> {k1, k2}, ops |-> {"create", "rm"}, names |-> {a, b}]} \cup MCStackVolMenus

\* Nothing tells the ids of a stack's containers apart.
CtrSymmetry == Permutations(StackCtrs)

MCImgMenus ==
    {[who |-> {k1}, ops |-> ImgOps, refs |-> {t1, short, 1}],
     [who |-> {k1, k2}, ops |-> {"pull"}, refs |-> {t1}]}

MCFull == [x \in {t1, t2, short} |-> IF x = short THEN t1 ELSE x]
MCManifest == [i \in 1..2 |-> IF i = 1 THEN <<l1, l2>> ELSE <<l1>>]

MCPaths == {<<"d">>, <<"x">>, <<"d", "x">>}

\* The hub stands for all words with a dot.
MCWords == {"library", "localhost", "x", Hub}
MCDotted == {Hub}
=============================================================================
