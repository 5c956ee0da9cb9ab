--------------------------- MODULE MCScannerPhases --------------------------
(***************************************************************************)
(* Small instances of ScannerPhases for TLC.  The email scanner is enabled *)
(* by default; url wants a histogram of email's recorder, so that they     *)
(* depend on each other; bad defines that recorder otherwise, and is not   *)
(* meant by "all".                                                         *)
(***************************************************************************)
EXTENDS ScannerPhases

CONSTANTS email, url, bad, emailtxt, urltxt, alerts, plain, other

MCfeature_defs == [sc \in Scanner |->
    CASE sc = email -> {[name |-> emailtxt, def |-> plain]}
      [] sc = url   -> {[name |-> urltxt, def |-> plain]}
      [] OTHER      -> {[name |-> emailtxt, def |-> other], [name |-> urltxt, def |-> plain]}]

MChistogram_defs == [sc \in Scanner |->
    CASE sc = email -> {emailtxt}
      [] sc = url   -> {emailtxt, urltxt}
      [] OTHER      -> {}]

On(sc) == [command |-> "enable", scannerName |-> sc]
Off(sc) == [command |-> "disable", scannerName |-> sc]

(* The order of two commands, "all", and commands for scanners that are    *)
(* not loaded, or not meant by "all", matter.                              *)
SomeCommandLists ==
    {<<>>, <<On(url)>>, <<Off(email)>>, <<Off(ALL_SCANNERS), On(url)>>,
     <<On(bad), On(ALL_SCANNERS)>>, <<Off(bad), On(ALL_SCANNERS)>>,
     <<On(url), Off(ALL_SCANNERS)>>}
FewCommandLists == {<<>>, <<On(url)>>, <<Off(ALL_SCANNERS), On(url)>>}
=============================================================================
