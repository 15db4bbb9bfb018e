----------------------------- MODULE MCQueries ------------------------------
(* The constants of MCJobQueue, for Queries.                               *)
EXTENDS Queries, MCJobQueue
=============================================================================
