------------------------------ MODULE MCBackup ------------------------------
\* A field of five elements and backups of up to three shares; the options -1,
\* 0, 0.5, 1, 1.5, 2 and 3, besides NaN and an option left out.
EXTENDS Backup
MCHalves == {-2, 0, 1, 2, 3, 4, 6}
=============================================================================
