------------------------------ MODULE MCConfig ------------------------------
EXTENDS Config

\* Around every limit: zero, the defaults and the preset, u32, the semaphore's
\* bound and usize.
MCValues ==
  [o \in Options |->
     CASE o = "chunk_size" -> {0, 4, 5}
       [] o \in {"read_connections", "write_connections"} -> {0, 4, 5, 17, 33, 64, 127}
       [] o \in {"read_concurrency", "write_concurrency"} ->
            {0, 1, 14, 15, 30, 31, 32, 33, 63, 126, 127}]
=============================================================================
