------------------------------ MODULE MCReads ------------------------------
EXTENDS Reads

\* A deleted key, an empty object, one below, at and just above the threshold,
\* and lengths that end in, at the start of and at the end of a piece.
MCLengths == {Absent, 0, 1, 2, 3, 4, 5}

\* A directory of two among five keys.
MCDir == {2, 3}

\* One error behind every arm of classify, and its neighbours.
MCFailures ==
  {Service(s, "none") : s \in {304, 400, 401, 403, 404, 429, 500, 503, 600}}
    \cup {Service(503, "slowdown"), Service(500, "slowdown")}
    \cup {Unanswered(v, d) : v \in {"timeout", "dispatch", "response"},
                             d \in {"none", "timed out"}}
=============================================================================
