--------------------------------- MODULE Scanf ---------------------------------
(* What sscanf() stores of a number: the conversions the configuration files   *)
(* are read with cut it to the width of the variable.                          *)
EXTENDS Integers

ShortMax == 32767
UShortMax == 65535
UCharMax == 255

\* %hd
Short(n) == ((n + 32768) % 65536) - 32768

\* %hu and %hhu
UShort(n) == n % 65536
UChar(n) == n % 256
===============================================================================
