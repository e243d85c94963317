------------------------------ MODULE MCSanitizer ------------------------------
EXTENDS Sanitizer
CONSTANTS t1, t2
=============================================================================
