--------------------------- MODULE MCDownloadURLs ---------------------------
(* DownloadURLs on a small instance; nothing is bounded but the sets: a request calls 115 at *)
(* most twice.                                                                              *)
EXTENDS DownloadURLs
=============================================================================
