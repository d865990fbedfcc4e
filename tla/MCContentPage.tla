----------------------------- MODULE MCContentPage -----------------------------
EXTENDS ContentPage
CONSTANTS a, blank, failed, dir, f1, f2, none
MCValue == {a}
MCStatus == {failed}
MCFolder == {dir}
MCFile == {f1, f2}
=============================================================================
