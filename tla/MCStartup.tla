----------------------------- MODULE MCStartup -----------------------------
EXTENDS Startup

const_Version == 1..3
const_AdapterVersion == 2
=============================================================================
