--------------------------- MODULE MCReceiptDrain ---------------------------
EXTENDS ReceiptDrain
=============================================================================
