---------------------------- MODULE MCFileNames ----------------------------
EXTENDS FileNames, SequencesExt

\* "/download/"
MCPrefix == <<47, 100, 111, 119, 110, 108, 111, 97, 100, 47>>

\* Characters that fare differently: a O 4, a space, # $ %, a Chinese character,
\* and the Chinese comma, whose escape has an F.
Characters ==
    {<<97>>, <<79>>, <<52>>, <<32>>, <<35>>, <<36>>, <<37>>, <<228, 189, 160>>, <<239, 188, 140>>}

MCInputs ==
    {FlattenSeq(s) : s \in UNION {[1..n -> Characters] : n \in 0..3}}
    \cup {<<b>> : b \in Byte} \cup {<<b, 255 - b>> : b \in Byte}
    \cup {[i \in 1..n |-> (i * i * 37) % 256] : n \in {57, 58, 59, 60}}
=============================================================================
