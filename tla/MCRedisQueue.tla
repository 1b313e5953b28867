---------------------------- MODULE MCRedisQueue ----------------------------
EXTENDS RedisQueue, TLC
=============================================================================
