----------------------------- MODULE MCJarHostTest -----------------------------
EXTENDS JarHostTest

CONSTANTS t1, t2, t3, t4

Tests == {t1, t2, t3, t4}
===============================================================================
