--------------------------- MODULE PublishedJobs ----------------------------
(***************************************************************************)
(* The jobs that the io thread of Stratum publishes and the notifications  *)
(* of JobFields that brought them.  Stratum needs no more of a job than    *)
(* its identity, and any notification may have brought any job.            *)
(***************************************************************************)
EXTENDS Stratum, JobFields

\* Whichever notification brought a job that miners are or were shown, its
\* target, its first nonce and the difficulty logged are the ones the pool means:
\* no share is missed for a target cut off, and no two clients search the same
\* nonces for an extra nonce filled up.
FieldsRead == jobs # <<>> => AllRead
=============================================================================
