---------------------------- MODULE MCDownloader -----------------------------
(***************************************************************************)
(* Small instance: two periods, the market closed in one of them.          *)
(***************************************************************************)
EXTENDS Downloader

CONSTANTS open, closed
=============================================================================
