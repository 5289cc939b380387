------------------------ MODULE MCPublicationChannel ------------------------
(* Two publications and two consumers over the three buffers of the code.  *)
(* The application has one consumer (the GUI thread); the second one makes *)
(* the failing compare-exchanges of TakePublished reachable.               *)
EXTENDS PublicationChannel

=============================================================================
