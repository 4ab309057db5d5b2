-------------------------- MODULE MCMemoryManager --------------------------
EXTENDS MemoryManager

CONSTANTS m1, m2, m3, m4, a, b

MCScopeOf == m1 :> b @@ m2 :> a @@ m3 :> a @@ m4 :> a
MCTypeOf  == m1 :> "episodic" @@ m2 :> "episodic" @@ m3 :> "episodic" @@ m4 :> "procedural"
MCTimes   == m1 :> 3 @@ m2 :> 2 @@ m3 :> 2 @@ m4 :> 1   \* m2 and m3 are a tie
Tied      == Permutations({m2, m3})
MCRawLimits == {-2, 5}   \* halves: -1, 2.5
=============================================================================
