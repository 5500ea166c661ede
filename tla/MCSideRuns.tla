----------------------------- MODULE MCSideRuns -----------------------------
EXTENDS SideRuns
=============================================================================
