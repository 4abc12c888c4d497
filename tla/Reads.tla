------------------------------- MODULE Reads -------------------------------
(***************************************************************************)
(* The two calls that read with many requests: get_object (RangeGet) and   *)
(* list_objects (Listing).  They share nothing but the pool, which         *)
(* S3Client has; a behaviour here is one call, of either.                  *)
(***************************************************************************)
EXTENDS RangeGet, Listing

VARIABLE method  \* the call: get_object or list_objects

readVars == <<vars, listVars, method>>

ReadsInit ==
  /\ Init /\ ListInit
  /\ \/ method = "get_object" /\ bucket = {}
     \/ method = "list_objects" /\ versions = <<Absent>>

ReadsNext ==
  \/ method = "get_object" /\ Next /\ UNCHANGED <<listVars, method>>
  \/ method = "list_objects" /\ ListNext /\ UNCHANGED <<vars, method>>

ReadsSpec == ReadsInit /\ [][ReadsNext]_readVars

\* The runtime polls what can go on, the pool admits and the store answers.
FairReadsSpec ==
  /\ ReadsSpec
  /\ WF_readVars(method = "get_object" /\ Proceed /\ UNCHANGED <<listVars, method>>)
  /\ WF_readVars(method = "list_objects" /\ ListProceed /\ UNCHANGED <<vars, method>>)

ReadsTypeOK ==
  /\ TypeOK
  /\ ListTypeOK
  /\ method \in {"get_object", "list_objects"}
=============================================================================
