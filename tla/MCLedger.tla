------------------------------ MODULE MCLedger ------------------------------
EXTENDS Ledger
\* Days of the transactions: within a year, over its end, and over two.
MCDay == <<10, 200, 400, 800>>
=============================================================================
