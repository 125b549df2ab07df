---------------------------- MODULE MCLabelSearch ----------------------------
EXTENDS LabelSearch
=============================================================================
